---- MODULE Spec2Model ----
\* Play-by-play core of WNBA_Manager_2026: name normalisation, identity
\* resolution, event classification and lineup stint segmentation.
\*
\* Text is modelled at two levels.  A player name is a sequence of characters
\* (one-character strings, or a named atom for a non-ASCII character); a
\* description is a sequence of words (the text split at whitespace, with
\* parentheses as words of their own).  A name taken out of a description is
\* the words of the capture joined by single spaces.
EXTENDS Integers, Sequences, FiniteSets, TLC

VARIABLES
    pc,          \* phase of the run being modelled
    name_in,     \* norm_name: the raw name
    name_out,    \* norm_name: the results of the two normalisers
    p0,          \* roster index rows (phase0 csv)
    alias_map,   \* alias table rows (raw, canon), already normalised
    res,         \* the last resolver call and what each resolver returned
    pbp,         \* event table rows (pbp_events_canonical.csv)
    out_rows,    \* attributed action rows
    issues,      \* issue rows
    events,      \* pbp_events.csv rows, with their lineup snapshots
    stint_rows,  \* stint rows
    ev_ctx,      \* the event context rows of the segmenter's run
    df,          \* the frame of a tool that reads a derived table
    p0_columns,  \* the columns of the roster index
    core_out     \* what the core parser's run produced

vars == <<pc, name_in, name_out, p0, alias_map, res, pbp, out_rows, issues,
          events, stint_rows, ev_ctx, df, p0_columns, core_out>>

\* Python's None / pandas NaN.
NULL == "NULL"

\* ---------------------------------------------------------------------
\* Sequence helpers
\* ---------------------------------------------------------------------
Range(s) == {s[i] : i \in DOMAIN s}

RECURSIVE Flatten(_)
Flatten(ss) ==
    IF ss = <<>> THEN <<>> ELSE Head(ss) \o Flatten(Tail(ss))

Min(S) == CHOOSE x \in S : \A y \in S : x <= y

Max(S) == CHOOSE x \in S : \A y \in S : x >= y

RECURSIVE SumSeq(_)
SumSeq(s) ==
    IF s = <<>> THEN 0 ELSE Head(s) + SumSeq(Tail(s))

\* ---------------------------------------------------------------------
\* Characters
\* ---------------------------------------------------------------------
\* A character is a one-character string; "e_acute" is U+00E9,
\* "combining_acute" U+0301 and "rsquo" U+2019.  A longer string is a whole
\* word of letters (a keyword of a description that ended up in a name).
Punct == {".", ",", "(", ")", "rsquo"}

\* str.lower() on one character.
lower_char(c) ==
    CASE c = "A" -> "a" [] c = "B" -> "b" [] c = "E" -> "e" [] c = "I" -> "i"
      [] c = "J" -> "j" [] c = "R" -> "r" [] c = "S" -> "s" [] c = "V" -> "v"
      [] c = "W" -> "w" [] c = "Z" -> "z" [] OTHER -> c

\* unicodedata.normalize("NFKD", c) on one character.
nfkd_char(c) ==
    IF c = "e_acute" THEN <<"e", "combining_acute">> ELSE <<c>>

\* unicodedata.combining(c) != 0
combining(c) == c = "combining_acute"

\* \s
IsSpace(c) == c = " "

\* \w
IsWord(c) == c \notin Punct \cup {" ", "'", "-", "combining_acute"}

\* ---------------------------------------------------------------------
\* norm_name
\* ---------------------------------------------------------------------
\* str.strip()
strip(s) ==
    LET keep == {i \in DOMAIN s : ~IsSpace(s[i])}
    IN  IF keep = {} THEN <<>> ELSE SubSeq(s, Min(keep), Max(keep))

\* unicodedata.normalize("NFKD", s), then dropping the combining marks.
strip_accents(s) ==
    SelectSeq(Flatten([i \in DOMAIN s |-> nfkd_char(s[i])]),
              LAMBDA c : ~combining(c))

\* str.lower()
lower(s) == [i \in DOMAIN s |-> lower_char(s[i])]

\* s.replace(rsquo, "'")
replace_rsquo(s) == [i \in DOMAIN s |-> IF s[i] = "rsquo" THEN "'" ELSE s[i]]

\* re.sub(r"[^\w\s'-]", "", s)
remove_punct(s) ==
    SelectSeq(s, LAMBDA c : IsWord(c) \/ IsSpace(c) \/ c \in {"'", "-"})

\* re.sub(r"\s+", " ", s): every maximal run of whitespace becomes one space.
collapse_ws(s) ==
    LET keep(i) == ~IsSpace(s[i]) \/ i = 1 \/ ~IsSpace(s[i - 1])
        idx == {i \in DOMAIN s : keep(i)}
        RECURSIVE Build(_)
        Build(i) ==
            IF i > Len(s) THEN <<>>
            ELSE IF i \in idx
                 THEN <<IF IsSpace(s[i]) THEN " " ELSE s[i]>> \o Build(i + 1)
                 ELSE Build(i + 1)
    IN  Build(1)

\* The alternatives of SUFFIX_RE.
SuffixTokens ==
    { <<"j", "r">>, <<"s", "r">>, <<"i", "i">>, <<"i", "i", "i">>,
      <<"i", "v">>, <<"v">> }

\* SUFFIX_RE.sub("", s) with SUFFIX_RE = \b(jr|sr|ii|iii|iv|v)\b\.?$ and
\* re.IGNORECASE.  The match ends at the end of s, after an optional period;
\* the token is made of word characters and starts at a word boundary, so
\* it is the whole last run of word characters.
suffix_sub(s) ==
    LET n == Len(s)
        e == IF n > 0 /\ s[n] = "." THEN n - 1 ELSE n
        starts == {i \in 1..e : \A k \in i..e : IsWord(s[k])}
    IN  IF starts = {} THEN s
        ELSE LET b == Min(starts)
             IN  IF lower(SubSeq(s, b, e)) \in SuffixTokens
                 THEN SubSeq(s, 1, b - 1)
                 ELSE s

\* tools/build_pbp_player_actions_table.py norm_name (the same function is
\* in phase4_5_enrich_ft_foul_tov.py).
norm_name(s) ==
    LET s1 == strip(s)
        s2 == strip_accents(s1)
        s3 == replace_rsquo(lower(s2))
        s4 == remove_punct(s3)
        s5 == strip(collapse_ws(s4))
        s6 == strip(suffix_sub(s5))
    IN  strip(collapse_ws(s6))

\* tools/parse_phase4_5_core_player_actions.py norm_name: no suffix rule.
norm_name_core(s) ==
    LET s1 == strip(s)
        s2 == strip_accents(s1)
        s3 == lower(s2)
        s4 == remove_punct(s3)
    IN  strip(collapse_ws(s4))

\* ---------------------------------------------------------------------
\* Roster index, alias table, resolvers
\* ---------------------------------------------------------------------
\* load_phase0: the row with playerName_norm added.  playerId is the row's
\* key in the index; the model numbers the rows.
load_phase0(rows) ==
    [i \in DOMAIN rows |->
        [playerId |-> rows[i].playerId, teamId |-> rows[i].teamId,
         playerName |-> rows[i].playerName,
         playerName_norm |-> norm_name(rows[i].playerName)]]

\* build_name_lookup: normalised name -> the rows with that name, in row
\* order; rows whose normalised name is empty are left out.
build_name_lookup(rows) ==
    LET keys == {rows[i].playerName_norm : i \in DOMAIN rows} \ {<<>>}
    IN  [k \in keys |-> SelectSeq(rows, LAMBDA r : r.playerName_norm = k)]

\* build_player_lookup of parse_phase4_5_core_player_actions.py: the same
\* table, keyed with that file's norm_name.
build_player_lookup(rows) ==
    LET normed == [i \in DOMAIN rows |->
                     [playerId |-> rows[i].playerId, teamId |-> rows[i].teamId,
                      playerName |-> rows[i].playerName,
                      playerName_norm |-> norm_name_core(rows[i].playerName)]]
        keys == {normed[i].playerName_norm : i \in DOMAIN normed} \ {<<>>}
    IN  [k \in keys |-> SelectSeq(normed, LAMBDA r : r.playerName_norm = k)]

\* dict.get(k, default)
dict_get(d, k, default) == IF k \in DOMAIN d THEN d[k] ELSE default

\* The first candidate on team t, NULL when there is none
\* (for pid, tid, _ in cands: if tid == preferred_team: return pid).
FirstOnTeam(cands, t) ==
    LET hits == {i \in DOMAIN cands : cands[i].teamId = t}
    IN  IF hits = {} THEN NULL ELSE cands[Min(hits)].playerId

\* aliases.get(n, n)
alias_get(amap, n) == dict_get(amap, n, n)

\* A resolver that returns the second field of the candidate tuple.
pick_candidate_field(cands, preferred_team) ==
    IF cands = <<>> THEN NULL
    ELSE IF Len(cands) = 1 THEN cands[1].teamId
    ELSE IF preferred_team # NULL THEN FirstOnTeam(cands, preferred_team)
    ELSE NULL

\* A resolver that looks at the hint before the number of candidates.
pick_candidate_hint_first(cands, preferred_team) ==
    IF cands = <<>> THEN NULL
    ELSE IF preferred_team # NULL THEN FirstOnTeam(cands, preferred_team)
    ELSE IF Len(cands) = 1 THEN cands[1].playerId
    ELSE NULL

\* resolve_player_id, lines 72-81: the choice among the candidates.
pick_candidate(cands, preferred_team) ==
    IF cands = <<>> THEN NULL
    ELSE IF Len(cands) = 1 THEN cands[1].playerId
    ELSE IF preferred_team # NULL THEN FirstOnTeam(cands, preferred_team)
    ELSE NULL

\* build_pbp_player_actions_table.py resolve_player_id.
resolve_player_id(raw_name, lut, amap, preferred_team) ==
    pick_candidate(dict_get(lut, alias_get(amap, norm_name(raw_name)), <<>>),
                   preferred_team)

\* resolve_name_to_playerId, lines 57-84: the returned id and the problem
\* logged for the normalised name n with its candidates.
pick_core(n, candidates, onTeam) ==
    IF n = <<>> THEN [pid |-> NULL, problem |-> "empty_name"]
    ELSE IF candidates = <<>>
         THEN [pid |-> NULL, problem |-> "name_not_found"]
    ELSE IF Len(candidates) = 1
         THEN [pid |-> candidates[1].playerId, problem |-> NULL]
    ELSE IF onTeam # NULL THEN [pid |-> onTeam, problem |-> NULL]
    ELSE [pid |-> candidates[1].playerId, problem |-> "ambiguous_name"]

\* The candidate on the preferred team, NULL without a preferred team.
on_team(candidates, preferred_team) ==
    IF preferred_team # NULL THEN FirstOnTeam(candidates, preferred_team)
    ELSE NULL

\* name_lut.get(n, []) and the choice among the candidates.
lookup_core(n, name_lut, preferred_team) ==
    pick_core(n, dict_get(name_lut, n, <<>>),
              on_team(dict_get(name_lut, n, <<>>), preferred_team))

\* parse_phase4_5_core_player_actions.py resolve_name_to_playerId: the
\* returned id and the issue logged (the problem's name only).
resolve_name_to_playerId(raw_name, name_lut, preferred_team) ==
    lookup_core(norm_name_core(raw_name), name_lut, preferred_team)

\* ---------------------------------------------------------------------
\* The normaliser as a machine: a raw name is typed, then normalised
\* ---------------------------------------------------------------------
MaxNameLen == 4

\* res before any resolver call.
NoCall ==
    [raw_name |-> <<>>, preferred_team |-> NULL, pid |-> NULL,
     core_pid |-> NULL, core_problem |-> NULL]

\* load_phase0: the columns the roster index needs.
need == {"playerId", "playerName", "teamId"}

\* core_out before the core parser has run.
NoRun == [rows |-> <<>>, issues |-> <<>>, agg |-> {}, wrote |-> {}]

NameChars == {"a", "i", "v", "V", " ", ".", "-", "e_acute"}

Idle ==
    /\ name_in = <<>> /\ name_out = [a |-> <<>>, core |-> <<>>]
    /\ p0 = <<>> /\ alias_map = <<>> /\ res = NoCall
    /\ pbp = <<>> /\ out_rows = <<>> /\ issues = <<>>
    /\ events = <<>> /\ stint_rows = <<>>
    /\ ev_ctx = <<>> /\ df = <<>>
    /\ p0_columns = need /\ core_out = NoRun

\* pc: "input" while the inputs of a run are put together, then "normed",
\* "resolved", "ran" or "segmented" once the run modelled is over.
InitNorm == pc = "input" /\ Idle

TypeChar(c) ==
    /\ pc = "input"
    /\ Len(name_in) < MaxNameLen
    /\ name_in' = Append(name_in, c)
    /\ UNCHANGED <<ev_ctx, df, p0_columns, core_out>>
    /\ UNCHANGED <<pc, name_out, p0, alias_map, res, pbp, out_rows, issues,
                   events, stint_rows>>

Normalize ==
    /\ pc = "input"
    /\ name_out' = [a |-> norm_name(name_in), core |-> norm_name_core(name_in)]
    /\ pc' = "normed"
    /\ UNCHANGED <<ev_ctx, df, p0_columns, core_out>>
    /\ UNCHANGED <<name_in, p0, alias_map, res, pbp, out_rows, issues,
                   events, stint_rows>>

NextNorm == (\E c \in NameChars : TypeChar(c)) \/ Normalize

SpecNorm == InitNorm /\ [][NextNorm]_vars

\* C7: name normalisation is idempotent, norm_name(norm_name(n)) =
\* norm_name(n) for every name n, also when n ends in several generational
\* suffix tokens or is only such a token (both normalisers).
NormIdempotent ==
    pc = "normed" =>
        /\ norm_name(name_out.a) = name_out.a
        /\ norm_name_core(name_out.core) = name_out.core

\* ---------------------------------------------------------------------
\* The resolvers as a machine: a roster index and an alias table are put
\* together, then a name is resolved
\* ---------------------------------------------------------------------
MaxRoster == 2

PlayerIds == <<"p1", "p2", "p3", "p4", "p5", "p6">>

\* "A" and "a v" have the same normal form under norm_name ("v" is a
\* generational suffix), not under norm_name_core.
RosterNames == { <<"A">>, <<"a", " ", "v">>, <<"B">> }

RawNames == RosterNames \cup { <<"Z">> }

Teams == {"T1", "T2"}

\* preferred_team: None (no team column), a team, or str(NaN).
Hints == {NULL, "T1", "T2", "nan"}

\* Rows (raw, canon) an alias file may hold.
AliasRows == { << <<"Z">>, <<"A">> >>, << <<"A">>, <<"B">> >>,
               << <<"B">>, <<"Z">> >> }

InitResolve == pc = "input" /\ Idle

AddRosterRow(name, team) ==
    /\ pc = "input"
    /\ pbp = <<>>
    /\ Len(p0) < MaxRoster
    /\ p0' = Append(p0, [playerId |-> PlayerIds[Len(p0) + 1],
                         playerName |-> name, teamId |-> team])
    /\ UNCHANGED <<ev_ctx, df, p0_columns, core_out>>
    /\ UNCHANGED <<pc, name_in, name_out, alias_map, res, pbp, out_rows,
                   issues, events, stint_rows>>

\* load_aliases: {norm_name(raw): norm_name(canon)}, a later row replacing
\* an earlier one with the same key.
AddAlias(raw, canon) ==
    /\ pc = "input"
    /\ pbp = <<>>
    /\ alias_map' = [k \in DOMAIN alias_map \cup {norm_name(raw)} |->
                       IF k = norm_name(raw) THEN norm_name(canon)
                       ELSE alias_map[k]]
    /\ UNCHANGED <<ev_ctx, df, p0_columns, core_out>>
    /\ UNCHANGED <<pc, name_in, name_out, p0, res, pbp, out_rows, issues,
                   events, stint_rows>>

Resolve(raw, hint) ==
    /\ pc = "input"
    /\ pbp = <<>>
    /\ \E core \in {resolve_name_to_playerId(raw, build_player_lookup(p0),
                                               hint)} :
          res' = [raw_name |-> raw, preferred_team |-> hint,
                  pid |-> resolve_player_id(
                             raw, build_name_lookup(load_phase0(p0)),
                             alias_map, hint),
                  core_pid |-> core.pid, core_problem |-> core.problem]
    /\ pc' = "resolved"
    /\ UNCHANGED <<ev_ctx, df, p0_columns, core_out>>
    /\ UNCHANGED <<name_in, name_out, p0, alias_map, pbp, out_rows, issues,
                   events, stint_rows>>

\* ---------------------------------------------------------------------
\* Descriptions and the parsing patterns
\* ---------------------------------------------------------------------
\* A description is its words in order.  "(" is written against the word
\* after it and ")" against the word before it; every other pair of
\* neighbours has whitespace between them.  Keywords are lower case, as in
\* the feed; a one-letter word is a character of a name.
Sp(d, i) == i >= 1 /\ i < Len(d) /\ d[i] # "(" /\ d[i + 1] # ")"

\* The text of words a..b as a name string: the words, with a space
\* wherever the description has whitespace (str.strip() then has nothing
\* to remove at the ends); no words when there was no match (a = 0).
RECURSIVE JoinWords(_, _, _)
JoinWords(d, a, b) ==
    IF a > b \/ a < 1 THEN <<>>
    ELSE IF a = b THEN <<d[a]>>
    ELSE <<d[a]>> \o (IF Sp(d, a) THEN <<" ">> ELSE <<>>)
         \o JoinWords(d, a + 1, b)

Verbs == {"makes", "misses"}

FirstOr0(S) == IF S = {} THEN 0 ELSE Min(S)

\* "free throw" in desc.lower()
HasFreeThrow(d) ==
    \E k \in 1..(Len(d) - 1) :
        d[k] = "free" /\ d[k + 1] \in {"throw", "throws"} /\ Sp(d, k)

\* "turnover" in desc.lower()
HasTurnover(d) == \E k \in DOMAIN d : d[k] \in {"turnover", "turnovers"}

\* RE_SHOT = ^(.+?)\s+(makes|misses)\s+(two point|three point)\b
\* The value is the number of words of group 1, 0 when there is no match;
\* the verb is word i+1 and the kind starts at word i+2.
RE_SHOT(d) ==
    FirstOr0({i \in 1..(Len(d) - 3) :
                /\ Sp(d, i) /\ d[i + 1] \in Verbs
                /\ d[i + 2] \in {"two", "three"} /\ d[i + 3] = "point"})

\* RE_FT = ^(.+?)\s+(makes|misses)\s+.*free throw\b
RE_FT(d) ==
    FirstOr0({i \in 1..(Len(d) - 3) :
                /\ Sp(d, i) /\ d[i + 1] \in Verbs /\ Sp(d, i + 1)
                /\ \E k \in (i + 2)..(Len(d) - 1) :
                      d[k] = "free" /\ d[k + 1] = "throw" /\ Sp(d, k)})

\* The looser fallback ^(.+?)\s+(makes|misses)\b
RE_FT_LOOSE(d) ==
    FirstOr0({i \in 1..(Len(d) - 1) : Sp(d, i) /\ d[i + 1] \in Verbs})

\* RE_ASSIST = \((.+?)\s+assists\): <<i, j>> with "(" at word i and
\* "assists" ")" at words j, j+1; group 1 is words i+1..j-1.  <<0, 0>> when
\* there is no match.
ParenClause(d, kw) ==
    LET ends == {j \in 2..(Len(d) - 1) :
                    d[j] = kw /\ d[j + 1] = ")" /\ Sp(d, j - 1)}
        opens == {i \in DOMAIN d :
                    d[i] = "(" /\ \E j \in ends : j >= i + 2}
    IN  IF opens = {} THEN <<0, 0>>
        ELSE LET i == Min(opens)
             IN  <<i, Min({j \in ends : j >= i + 2})>>

RE_ASSIST(d) == ParenClause(d, "assists")

\* RE_REB = ^(.+?)\s+(offensive|defensive)\s+rebound\b
RE_REB(d) ==
    FirstOr0({i \in 1..(Len(d) - 2) :
                /\ Sp(d, i) /\ d[i + 1] \in {"offensive", "defensive"}
                /\ d[i + 2] = "rebound"})

\* RE_TOV_A = ^(.+?)\s+turnover\b
RE_TOV_A(d) ==
    FirstOr0({i \in 1..(Len(d) - 1) : Sp(d, i) /\ d[i + 1] = "turnover"})

\* RE_TOV_B = turnover\s+by\s+(.+?)(?:\(|$): <<a, b>>, group 1 is words
\* a..b; <<0, 0>> when there is no match.
RE_TOV_B(d) ==
    LET ks == {k \in 1..(Len(d) - 2) :
                 /\ d[k] = "turnover" /\ Sp(d, k) /\ d[k + 1] = "by"
                 /\ Sp(d, k + 1)}
    IN  IF ks = {} THEN <<0, 0>>
        ELSE LET a == Min(ks) + 2
                 stops == {m \in (a + 1)..Len(d) : d[m] = "("}
             IN  <<a, IF stops = {} THEN Len(d) ELSE Min(stops) - 1>>

\* RE_FOUL_LEAD = ^(.+?)\s+.*\bfoul\b
RE_FOUL_LEAD(d) ==
    FirstOr0({i \in 1..(Len(d) - 1) :
                Sp(d, i) /\ \E k \in (i + 1)..Len(d) : d[k] = "foul"})

\* RE_PARENS.findall: the innermost parenthesised chunks, as <<i, j>> with
\* "(" at word i and ")" at word j, in order of appearance.
RE_PARENS(d) ==
    LET pairs == {ij \in (DOMAIN d) \X (DOMAIN d) :
                    /\ ij[1] < ij[2] /\ d[ij[1]] = "(" /\ d[ij[2]] = ")"
                    /\ \A m \in (ij[1] + 1)..(ij[2] - 1) : d[m] \notin {"(", ")"}}
        RECURSIVE Order(_)
        Order(P) ==
            IF P = {} THEN <<>>
            ELSE LET f == CHOOSE x \in P : \A y \in P : x[1] <= y[1]
                 IN  <<f>> \o Order(P \ {f})
    IN  Order(pairs)

\* RE_DRAWS = ^(.+?)\s+draws?\s+the\s+foul\b on the chunk i..j (the words
\* between the parentheses): the last word of group 1, 0 when no match.
RE_DRAWS(d, i, j) ==
    FirstOr0({m \in (i + 1)..(j - 4) :
                /\ d[m + 1] \in {"draw", "draws"} /\ d[m + 2] = "the"
                /\ d[m + 3] = "foul"})

\* "draw" in ch.lower() and "foul" in ch.lower()
MentionsDrawFoul(d, i, j) ==
    /\ \E m \in (i + 1)..(j - 1) : d[m] \in {"draw", "draws"}
    /\ \E m \in (i + 1)..(j - 1) : d[m] \in {"foul", "fouls"}

\* ---------------------------------------------------------------------
\* build_pbp_player_actions_table.py main: one event row
\* ---------------------------------------------------------------------
\* preferred_team or poss_team
TeamOf(r) ==
    IF r.attribution_team_id # NULL THEN r.attribution_team_id
    ELSE r.possession_team_id

\* add_row: the action row.  ev is the position of the event row in the
\* event table; points_value is the text written to the csv.
add_row(i, r, player_id, action, result, points_value) ==
    [ev |-> i, player_id |-> player_id,
     team_id |-> IF TeamOf(r) = NULL THEN "" ELSE TeamOf(r),
     event_type |-> r.event_type, action |-> action, result |-> result,
     points_value |-> points_value, description |-> r.description]

issue_row(i, r, bucket, raw_name) ==
    [ev |-> i, bucket |-> bucket, raw_name |-> raw_name,
     event_type |-> r.event_type, description |-> r.description]

Nothing == [rows |-> <<>>, issues |-> <<>>]

\* "freethrow" in et or "free_throw" in et
IsFreeThrowType(et) == et \in {"freethrowmade", "freethrowmiss"}

\* "turnover" in et
IsTurnoverType(et) == et \in {"turnover"}

\* "foul" in et
IsFoulType(et) ==
    et \in {"personalfoul", "shootingfoul", "offensivefoul", "technicalfoul"}

\* A result that ignores the verb.
always_made(verb) == "made"

made_or_missed(verb) == IF verb = "makes" THEN "made" ELSE "missed"

\* The rows and issues of two steps, one after the other.
Cat(x, y) == [rows |-> x.rows \o y.rows, issues |-> x.issues \o y.issues]

OneRow(row) == [rows |-> <<row>>, issues |-> <<>>]

OneIssue(issue) == [rows |-> <<>>, issues |-> <<issue>>]

\* lines 300-312: the passer is resolved with the event's team; an assist
\* row, or an issue when the passer is not resolved.
assist_rows(i, r, passer, apid) ==
    IF apid # NULL THEN OneRow(add_row(i, r, apid, "assist", "credited", ""))
    ELSE OneIssue(issue_row(i, r, "assist_name", passer))

assist_named(i, r, lut, amap, passer) ==
    assist_rows(i, r, passer,
                resolve_player_id(passer, lut, amap, r.attribution_team_id))

\* lines 298-299: if result == "made": am = RE_ASSIST.search(desc); if am
assist_part(i, r, lut, amap, verb, am) ==
    IF verb = "makes" /\ am[1] # 0
    THEN assist_named(i, r, lut, amap,
                      JoinWords(r.description, am[1] + 1, am[2] - 1))
    ELSE Nothing

\* lines 284-296: points_value, the action name and the shot's row.
shot_row(i, r, pid, verb, kind) ==
    add_row(i, r, pid, IF kind = "three" THEN "three_pa" ELSE "two_pa",
            made_or_missed(verb), IF kind = "three" THEN "3" ELSE "2")

\* lines 279-312: a shooter that is not resolved leaves an issue and ends
\* the event (continue); otherwise the shot's row, then the assist.
shot_rows(i, r, lut, amap, shooter, pid, verb, kind) ==
    IF pid = NULL THEN OneIssue(issue_row(i, r, "shot", shooter))
    ELSE Cat(OneRow(shot_row(i, r, pid, verb, kind)),
             assist_part(i, r, lut, amap, verb, RE_ASSIST(r.description)))

shot_named(i, r, lut, amap, shooter, verb, kind) ==
    shot_rows(i, r, lut, amap, shooter,
              resolve_player_id(shooter, lut, amap, r.attribution_team_id),
              verb, kind)

\* lines 272-278: the groups of the match m of RE_SHOT.
shot_match(i, r, lut, amap, m) ==
    shot_named(i, r, lut, amap, JoinWords(r.description, 1, m),
               r.description[m + 1], r.description[m + 2])

\* lines 272-312
shot_branch(i, r, lut, amap) == shot_match(i, r, lut, amap, RE_SHOT(r.description))

\* lines 326-341
ft_rows(i, r, shooter, pid, verb) ==
    IF pid = NULL THEN OneIssue(issue_row(i, r, "ft", shooter))
    ELSE OneRow(add_row(i, r, pid, "fta", made_or_missed(verb), "1"))

ft_named(i, r, lut, amap, shooter, verb) ==
    ft_rows(i, r, shooter,
            resolve_player_id(shooter, lut, amap, r.attribution_team_id), verb)

\* lines 316-325: RE_FT, else the looser pattern when the description
\* holds "free throw"; no match ends the event.
ft_match(i, r, lut, amap, mft, mft2) ==
    IF mft # 0
    THEN ft_named(i, r, lut, amap, JoinWords(r.description, 1, mft),
                  r.description[mft + 1])
    ELSE IF mft2 # 0 /\ HasFreeThrow(r.description)
    THEN ft_named(i, r, lut, amap, JoinWords(r.description, 1, mft2),
                  r.description[mft2 + 1])
    ELSE Nothing

\* lines 314-341
ft_branch(i, r, lut, amap) ==
    ft_match(i, r, lut, amap, RE_FT(r.description), RE_FT_LOOSE(r.description))

\* lines 349-361
rebound_rows(i, r, name, pid, kind) ==
    IF pid = NULL THEN OneIssue(issue_row(i, r, "rebound", name))
    ELSE OneRow(add_row(i, r, pid,
                        IF kind = "offensive" THEN "orb" ELSE "drb",
                        "secured", ""))

rebound_named(i, r, lut, amap, name, kind) ==
    rebound_rows(i, r, name,
                 resolve_player_id(name, lut, amap, r.attribution_team_id),
                 kind)

\* lines 343-361
rebound_branch(i, r, lut, amap) ==
    rebound_named(i, r, lut, amap,
                  JoinWords(r.description, 1, RE_REB(r.description)),
                  r.description[RE_REB(r.description) + 1])

\* lines 376-388
turnover_rows(i, r, name, pid) ==
    IF pid = NULL THEN OneIssue(issue_row(i, r, "turnover", name))
    ELSE OneRow(add_row(i, r, pid, "turnover", "committed", ""))

turnover_named(i, r, lut, amap, name) ==
    IF name = <<>> THEN Nothing
    ELSE turnover_rows(i, r, name,
                       resolve_player_id(name, lut, amap,
                                         r.attribution_team_id))

\* lines 365-375: RE_TOV_A, else RE_TOV_B; no name ends the event.
turnover_match(i, r, lut, amap, mt, mt2) ==
    turnover_named(i, r, lut, amap,
                   IF mt # 0 THEN JoinWords(r.description, 1, mt)
                   ELSE IF mt2[1] # 0
                   THEN JoinWords(r.description, mt2[1], mt2[2])
                   ELSE <<>>)

\* lines 363-388
turnover_branch(i, r, lut, amap) ==
    turnover_match(i, r, lut, amap, RE_TOV_A(r.description),
                   RE_TOV_B(r.description))

\* The chunks of RE_PARENS that mention a drawn foul and match RE_DRAWS.
drawing_chunks(d, chunks) ==
    {c \in DOMAIN chunks :
        /\ MentionsDrawFoul(d, chunks[c][1], chunks[c][2])
        /\ RE_DRAWS(d, chunks[c][1], chunks[c][2]) # 0}

\* The drawer's words in the first such chunk.
first_drawer(d, chunks, good) ==
    IF good = {} THEN <<0, 0>>
    ELSE <<chunks[Min(good)][1] + 1,
           RE_DRAWS(d, chunks[Min(good)][1], chunks[Min(good)][2])>>

\* The drawer's words <<a, b>> in the last such chunk (the loop keeps
\* the last match), <<0, 0>> when there is none.
last_drawer(d, chunks, good) ==
    IF good = {} THEN <<0, 0>>
    ELSE <<chunks[Max(good)][1] + 1,
           RE_DRAWS(d, chunks[Max(good)][1], chunks[Max(good)][2])>>

drawer_in(d, chunks) == last_drawer(d, chunks, drawing_chunks(d, chunks))

\* lines 395-402
find_drawer(d) == drawer_in(d, RE_PARENS(d))

\* lines 404-413 and 415-424: a row for a resolved name, an issue for an
\* unresolved one, nothing without a name.
foul_rows(i, r, name, pid, action, result) ==
    IF name = <<>> THEN Nothing
    ELSE IF pid # NULL THEN OneRow(add_row(i, r, pid, action, result, ""))
    ELSE OneIssue(issue_row(i, r, action, name))

foul_named(i, r, lut, amap, name, action, result) ==
    foul_rows(i, r, name,
              resolve_player_id(name, lut, amap, r.attribution_team_id),
              action, result)

foul_match(i, r, lut, amap, mlead, dr) ==
    Cat(foul_named(i, r, lut, amap, JoinWords(r.description, 1, mlead),
                   "foul_committed", "called"),
        foul_named(i, r, lut, amap, JoinWords(r.description, dr[1], dr[2]),
                   "foul_drawn", "drawn"))

\* lines 390-424
foul_branch(i, r, lut, amap) ==
    foul_match(i, r, lut, amap, RE_FOUL_LEAD(r.description),
               find_drawer(r.description))

\* A loop body whose free-throw bucket is gated by the event type alone.
process_event_type_gate(i, r, lut, amap) ==
    IF RE_SHOT(r.description) # 0 THEN shot_branch(i, r, lut, amap)
    ELSE IF IsFreeThrowType(r.event_type) THEN ft_branch(i, r, lut, amap)
    ELSE IF RE_REB(r.description) # 0 THEN rebound_branch(i, r, lut, amap)
    ELSE IF IsTurnoverType(r.event_type) \/ HasTurnover(r.description)
         THEN turnover_branch(i, r, lut, amap)
    ELSE IF IsFoulType(r.event_type) THEN foul_branch(i, r, lut, amap)
    ELSE Nothing

\* The body of the loop over the event rows, lines 252-424: the action
\* rows and the issue rows event i adds.
process_event(i, r, lut, amap) ==
    IF RE_SHOT(r.description) # 0 THEN shot_branch(i, r, lut, amap)
    ELSE IF IsFreeThrowType(r.event_type) \/ HasFreeThrow(r.description)
         THEN ft_branch(i, r, lut, amap)
    ELSE IF RE_REB(r.description) # 0 THEN rebound_branch(i, r, lut, amap)
    ELSE IF IsTurnoverType(r.event_type) \/ HasTurnover(r.description)
         THEN turnover_branch(i, r, lut, amap)
    ELSE IF IsFoulType(r.event_type) THEN foul_branch(i, r, lut, amap)
    ELSE Nothing

\* main, lines 174-434: the action rows and issue rows of the whole event
\* table, in event order.
RECURSIVE run_events(_, _, _, _)
run_events(rows, i, lut, amap) ==
    IF i > Len(rows) THEN Nothing
    ELSE Cat(process_event(i, rows[i], lut, amap),
             run_events(rows, i + 1, lut, amap))

\* ---------------------------------------------------------------------
\* The actions table as a machine: event rows are put in the event table,
\* then main runs over it
\* ---------------------------------------------------------------------
MaxPbpRows == 2

AddPbpRow(e) ==
    /\ pc = "input"
    /\ Len(pbp) < MaxPbpRows
    /\ pbp' = Append(pbp, e)
    /\ UNCHANGED <<ev_ctx, df, p0_columns, core_out>>
    /\ UNCHANGED <<pc, name_in, name_out, p0, alias_map, res, out_rows,
                   issues, events, stint_rows>>

\* main of build_pbp_player_actions_table.py: load_phase0 raises when the
\* roster index lacks a column; otherwise the loop runs and both tables
\* are written.
RunActions ==
    /\ pc = "input"
    /\ IF need \subseteq p0_columns
       THEN /\ \E out \in {run_events(pbp, 1,
                                       build_name_lookup(load_phase0(p0)),
                                       alias_map)} :
                  out_rows' = out.rows /\ issues' = out.issues
            /\ pc' = "ran"
       ELSE pc' = "raised" /\ UNCHANGED <<out_rows, issues>>
    /\ UNCHANGED <<ev_ctx, df, p0_columns, core_out>>
    /\ UNCHANGED <<name_in, name_out, p0, alias_map, res, pbp, events,
                   stint_rows>>

Event(et, d, att, poss) ==
    [event_type |-> et, description |-> d, attribution_team_id |-> att,
     possession_team_id |-> poss]

\* Events of the resolver machine: a made shot with an assist and a free
\* throw, by players the roster may or may not hold.
ResolveEvents ==
    { Event("twopointmade",
            <<"A", "makes", "two", "point", "shot", "(", "B", "assists", ")">>,
            "T1", "T1"),
      Event("freethrowmade", <<"a", "v", "makes", "free", "throw">>,
            "T2", "T2") }

NextResolve ==
    \/ \E n \in RosterNames, t \in Teams : AddRosterRow(n, t)
    \/ \E a \in AliasRows : AddAlias(a[1], a[2])
    \/ \E n \in RawNames, h \in Hints : Resolve(n, h)
    \/ \E e \in ResolveEvents : AddPbpRow(e)
    \/ RunActions

SpecResolve == InitResolve /\ [][NextResolve]_vars

\* ---------------------------------------------------------------------
\* The actions table over shot events and over free-throw events, with a
\* roster of two players on team T1; "E" is a name the roster lacks
\* ---------------------------------------------------------------------
ActionsRoster ==
    << [playerId |-> "p1", playerName |-> <<"A", " ", "W">>, teamId |-> "T1"],
       [playerId |-> "p2", playerName |-> <<"B">>, teamId |-> "T1"] >>

InitActions ==
    /\ pc = "input"
    /\ p0 = ActionsRoster
    /\ name_in = <<>> /\ name_out = [a |-> <<>>, core |-> <<>>]
    /\ alias_map = <<>> /\ res = NoCall
    /\ pbp = <<>> /\ out_rows = <<>> /\ issues = <<>>
    /\ events = <<>> /\ stint_rows = <<>>
    /\ ev_ctx = <<>> /\ df = <<>>
    /\ p0_columns = need /\ core_out = NoRun

ShooterNames == { <<"A", "W">>, <<"E">> }

AssistClauses ==
    { <<>>, <<"(", "B", "assists", ")">>, <<"(", "E", "assists", ")">> }

\* NAME makes|misses two|three point shot, with or without an assist
\* clause.
ShotEvents ==
    { Event("fieldgoal", n \o <<v, k, "point", "shot">> \o c, "T1", "T1") :
        n \in ShooterNames, v \in Verbs, k \in {"two", "three"},
        c \in AssistClauses }

\* What stands between the verb and "free throw", and what follows.
FreeThrowForms ==
    { << <<>>, <<"1", "of", "2">> >>,
      << <<"technical">>, <<>> >>,
      << <<>>, <<"(", "B", "assists", ")">> >>,
      << <<"two", "point">>, <<>> >> }

\* NAME makes|misses ... free throw ..., in an event of a free-throw type
\* or of another type.
FreeThrowEvents ==
    { Event(et, n \o <<v>> \o f[1] \o <<"free", "throw">> \o f[2],
            "T1", "T1") :
        et \in {"freethrowmade", "technicalfoul"}, n \in ShooterNames,
        v \in Verbs, f \in FreeThrowForms }

NextShots == (\E e \in ShotEvents : AddPbpRow(e)) \/ RunActions

SpecShots == InitActions /\ [][NextShots]_vars

NextFT == (\E e \in FreeThrowEvents : AddPbpRow(e)) \/ RunActions

SpecFT == InitActions /\ [][NextFT]_vars

\* ---------------------------------------------------------------------
\* build_phase4_from_pbp_tables.py: the time axis and the lineup stints
\* ---------------------------------------------------------------------
\* The function f on 1..n as a sequence of values.
AsSeq(f) == SubSeq(f, 1, Len(f))

\* A numeric cell is NaN (None) or holds a number.
NaN == <<>>

Num(v) == <<v>>

\* clock_to_sec: the clock is the text around ":" as numbers, <<m, s>>;
\* a missing clock, or one that does not split in two, gives None.
clock_to_sec(clock_str) ==
    IF Len(clock_str) # 2 THEN NaN
    ELSE Num(clock_str[1] * 60 + clock_str[2])

\* A period length that is the same in overtime.
period_len_flat(period_number) == 600

period_len_sec(period_number) ==
    IF period_number \in {1, 2, 3, 4} THEN 600 ELSE 300

\* plen - rem + sum(period_len_sec(p) for p in range(1, period_number))
elapsed_from(period_number, rem) ==
    IF rem = NaN THEN NaN
    ELSE Num(SumSeq([q \in 1..(period_number - 1) |-> period_len_sec(q)])
             + period_len_sec(period_number) - rem[1])

game_time_elapsed_sec(period_number, clock_str) ==
    elapsed_from(period_number, clock_to_sec(clock_str))

\* is_clutch, lines 33-42.  A score cell of the event table is a number or
\* NaN, never None (the extractor always writes both score columns), so
\* the None test passes and int() of a NaN cell raises ValueError.
is_clutch_raises(period_number, clock_str, home_pts, away_pts) ==
    /\ period_number = 4
    /\ clock_to_sec(clock_str) # NaN
    /\ home_pts = NaN \/ away_pts = NaN

close_late(rem, home, away) ==
    IF rem <= 300 /\ Max({home - away, away - home}) <= 5 THEN 1 ELSE 0

is_clutch(period_number, clock_str, home_pts, away_pts) ==
    IF period_number # 4 THEN 0
    ELSE IF clock_to_sec(clock_str) = NaN THEN 0
    ELSE close_late(clock_to_sec(clock_str)[1], home_pts[1], away_pts[1])

\* sorted() on player id strings: the ids in their string order.
IdOrder ==
    <<"p1", "p2", "p3", "p4", "p5", "p6", "q1", "q2", "q3", "q4", "q5",
      "q6">>

\* A lineup that keeps the order of the lineup rows.
unsorted_lineup(ids) == ids

\* normalize_lineup: the tuple of the sorted ids, an id as many times as
\* the lineup rows hold it.
normalize_lineup(ids) ==
    Flatten([k \in DOMAIN IdOrder |->
                SelectSeq(ids, LAMBDA x : x = IdOrder[k])])

\* Line 94 and lines 111-124: the event row with t_elapsed, and with the
\* side's lineup of the event's lineup rows (NaN after the left merge when
\* the event has none).
ev_row(r) ==
    [event_number |-> r.event_number, period_number |-> r.period_number,
     clock |-> r.clock, home_points |-> r.home_points,
     away_points |-> r.away_points,
     t_elapsed |-> game_time_elapsed_sec(r.period_number, r.clock),
     home_lineup |-> normalize_lineup(r.home_players),
     away_lineup |-> normalize_lineup(r.away_players)]

\* The rows in the order the file has them.
file_order(rows) == rows

\* The place of rows[i] after sort_values(["period_number",
\* "event_number", "sequence"], kind="mergesort"); the event number is the
\* sequence of the event in the feed, so the third key never decides.
SortPlace(rows, i) ==
    1 + Cardinality({j \in DOMAIN rows :
          \/ rows[j].period_number < rows[i].period_number
          \/ /\ rows[j].period_number = rows[i].period_number
             /\ rows[j].event_number < rows[i].event_number
          \/ /\ rows[j].period_number = rows[i].period_number
             /\ rows[j].event_number = rows[i].event_number
             /\ j < i})

sort_values(rows) ==
    AsSeq([k \in DOMAIN rows |->
              rows[CHOOSE i \in DOMAIN rows : SortPlace(rows, i) = k]])

\* The last cell of col that is not NaN at or before row i.
LastValid(col, i, have) == IF have = {} THEN NaN ELSE col[Max(have)]

\* Series.ffill()
ffill(col) ==
    AsSeq([i \in DOMAIN col |->
              LastValid(col, i, {j \in 1..i : col[j] # NaN})])

\* Lines 126-127.
fill_lineups(rows, home, away) ==
    AsSeq([i \in DOMAIN rows |->
              [rows[i] EXCEPT !.home_lineup = home[i],
                              !.away_lineup = away[i]]])

ffill_lineups(rows) ==
    fill_lineups(rows,
                 ffill(AsSeq([i \in DOMAIN rows |-> rows[i].home_lineup])),
                 ffill(AsSeq([i \in DOMAIN rows |-> rows[i].away_lineup])))

lineup_col(r, side) == IF side = "home" THEN r.home_lineup ELSE r.away_lineup

\* ev.dropna(subset=[lineup_col, "t_elapsed"])
dropna(ev, side) ==
    SelectSeq(ev, LAMBDA r : lineup_col(r, side) # NaN /\ r.t_elapsed # NaN)

\* sub[lineup_col].ne(sub[lineup_col].shift(1))
change(sub, side, i) ==
    i = 1 \/ lineup_col(sub[i], side) # lineup_col(sub[i - 1], side)

\* sub["_change"].cumsum()
stint_of(sub, side, i) == Cardinality({j \in 1..i : change(sub, side, j)})

\* Lines 140-157: the score deltas between the first and the last row of
\* the group, None unless the four scores are there.
points(side, first, last) ==
    IF \/ first.home_points = NaN \/ first.away_points = NaN
       \/ last.home_points = NaN \/ last.away_points = NaN
    THEN [pf |-> NaN, pa |-> NaN]
    ELSE IF side = "home"
    THEN [pf |-> Num(last.home_points[1] - first.home_points[1]),
          pa |-> Num(last.away_points[1] - first.away_points[1])]
    ELSE [pf |-> Num(last.away_points[1] - first.away_points[1]),
          pa |-> Num(last.home_points[1] - first.home_points[1])]

\* Lines 136-178: the row of one group.
stint_row(side, team_id, stint_id, start_t, end_t, pts, lineup) ==
    [team_id |-> team_id, side |-> side, stint_id |-> stint_id,
     start_t |-> start_t, end_t |-> end_t,
     duration_s |-> Max({0, end_t - start_t}),
     points_for |-> pts.pf, points_against |-> pts.pa, lineup |-> lineup]

group_row(side, team_id, sub, stint_id, sg) ==
    stint_row(side, team_id, stint_id,
              Min({sub[i].t_elapsed[1] : i \in sg}),
              Max({sub[i].t_elapsed[1] : i \in sg}),
              points(side, sub[Min(sg)], sub[Max(sg)]),
              lineup_col(sub[Min(sg)], side))

\* for stint_id, sg in sub.groupby("_stint")
stints_of(side, team_id, sub) ==
    AsSeq([g \in 1..stint_of(sub, side, Len(sub)) |->
              group_row(side, team_id, sub, g,
                        {i \in DOMAIN sub : stint_of(sub, side, i) = g})])

\* emit_stints, lines 129-178: the rows appended to stint_rows.
emit_stints(side, team_id, ev) ==
    IF team_id = NULL THEN <<>> ELSE stints_of(side, team_id, dropna(ev, side))

\* The game's team ids, lines 90-91.
home_team_id == "T1"

away_team_id == "T2"

both_sides(ev) ==
    emit_stints("home", home_team_id, ev)
        \o emit_stints("away", away_team_id, ev)

\* main, lines 93-181, for the events of one game as the file has them.
main_stints(file) ==
    both_sides(ffill_lineups(sort_values(
        AsSeq([i \in DOMAIN file |-> ev_row(file[i])]))))

\* Lines 94-97: the rows of ev with the clutch flag, sorted.
ctx_row(r) ==
    [event_number |-> r.event_number, period_number |-> r.period_number,
     clock |-> r.clock, home_points |-> r.home_points,
     away_points |-> r.away_points,
     is_clutch |-> is_clutch(r.period_number, r.clock, r.home_points,
                             r.away_points)]

time_axis(file) ==
    sort_values(AsSeq([i \in DOMAIN file |-> ctx_row(file[i])]))

\* ev.apply at line 95 raises when is_clutch raises on a row.
time_axis_raises(file) ==
    \E i \in DOMAIN file :
        is_clutch_raises(file[i].period_number, file[i].clock,
                         file[i].home_points, file[i].away_points)

\* ---------------------------------------------------------------------
\* The segmenter as a machine: the feed's events come in, then main runs
\* over the event file
\* ---------------------------------------------------------------------
MaxEvents == 3

HomeFive == <<"p1", "p2", "p3", "p4", "p5">>

HomeFiveShuffled == <<"p4", "p1", "p5", "p3", "p2">>

HomeSub == <<"p6", "p1", "p2", "p3", "p4">>

AwayFive == <<"q1", "q2", "q3", "q4", "q5">>

AwaySub == <<"q1", "q2", "q3", "q4", "q6">>

\* The on-court players an event may carry: none, or both sides.
OnCourt ==
    { [home |-> <<>>, away |-> <<>>],
      [home |-> HomeFive, away |-> AwayFive],
      [home |-> HomeFiveShuffled, away |-> AwayFive],
      [home |-> HomeSub, away |-> AwaySub] }

Periods == {4, 5}

Clocks == { <<>>, <<5, 0>>, <<0, 0>> }

\* The score an event may carry, home and away: none, or both.
Scores ==
    { [home |-> NaN, away |-> NaN], [home |-> Num(0), away |-> Num(0)],
      [home |-> Num(2), away |-> Num(0)], [home |-> Num(2), away |-> Num(3)] }

\* The numbers of a column that are there.
Valid(cells) == {c[1] : c \in cells \ {NaN}}

ElapsedOf(r) == game_time_elapsed_sec(r.period_number, r.clock)

NotBefore(cell, cells) ==
    IF cell = NaN THEN TRUE ELSE \A v \in Valid(cells) : v <= cell[1]

\* The feed is chronological: the period, the elapsed time and the scores
\* of a new event are not below those of the events before it.  The event
\* number is the event's place in the feed.
AddEvent(period, clock, oc, hp, ap) ==
    /\ pc = "input"
    /\ Len(events) < MaxEvents
    /\ NotBefore(Num(period),
                 {Num(events[i].period_number) : i \in DOMAIN events})
    /\ NotBefore(game_time_elapsed_sec(period, clock),
                 {ElapsedOf(events[i]) : i \in DOMAIN events})
    /\ NotBefore(hp, {events[i].home_points : i \in DOMAIN events})
    /\ NotBefore(ap, {events[i].away_points : i \in DOMAIN events})
    /\ events' = Append(events,
                        [event_number |-> Len(events) + 1,
                         period_number |-> period, clock |-> clock,
                         home_points |-> hp, away_points |-> ap,
                         home_players |-> oc.home, away_players |-> oc.away])
    /\ UNCHANGED <<ev_ctx, df, p0_columns, core_out>>
    /\ UNCHANGED <<pc, name_in, name_out, p0, alias_map, res, pbp, out_rows,
                   issues, stint_rows>>

Reverse(rows) == AsSeq([i \in DOMAIN rows |-> rows[Len(rows) + 1 - i]])

\* main over the event file, whose rows are in feed order or in the
\* opposite order.  An exception in the time axis leaves main before any
\* table is written.
Main(backwards) ==
    /\ pc = "input"
    /\ \E file \in {IF backwards THEN Reverse(events) ELSE events} :
          IF time_axis_raises(file)
          THEN pc' = "raised" /\ UNCHANGED <<stint_rows, ev_ctx>>
          ELSE /\ pc' = "segmented"
               /\ stint_rows' = main_stints(file)
               /\ ev_ctx' = time_axis(file)
    /\ UNCHANGED <<df, p0_columns, core_out>>
    /\ UNCHANGED <<name_in, name_out, p0, alias_map, res, pbp, out_rows,
                   issues, events>>

InitStint == pc = "input" /\ Idle

\* Events with clocks and lineups that vary, the score at 0-0.
NextStint ==
    \/ \E p \in Periods, c \in Clocks, oc \in OnCourt :
          AddEvent(p, c, oc, Num(0), Num(0))
    \/ \E b \in BOOLEAN : Main(b)

SpecStint == InitStint /\ [][NextStint]_vars

\* Events with scores and lineups that vary, in the fourth period at 5:00.
NextPoints ==
    \/ \E oc \in OnCourt \ {[home |-> HomeFiveShuffled, away |-> AwayFive]},
          sc \in Scores :
          AddEvent(4, <<5, 0>>, oc, sc.home, sc.away)
    \/ \E b \in BOOLEAN : Main(b)

SpecPoints == InitStint /\ [][NextPoints]_vars

\* The rows of the event file in the order p.
Permuted(rows, p) == AsSeq([i \in DOMAIN rows |-> rows[p[i]]])

\* main over the event file with its rows in the order p; df is the
\* file as read.
MainShuffled(p) ==
    /\ pc = "input"
    /\ \E file \in {Permuted(events, p)} :
          IF time_axis_raises(file)
          THEN pc' = "raised" /\ UNCHANGED <<stint_rows, ev_ctx, df>>
          ELSE /\ pc' = "segmented"
               /\ stint_rows' = main_stints(file)
               /\ ev_ctx' = time_axis(file)
               /\ df' = file
    /\ UNCHANGED <<p0_columns, core_out>>
    /\ UNCHANGED <<name_in, name_out, p0, alias_map, res, pbp, out_rows,
                   issues, events>>

\* The period and the clock of an event: two periods, a clock that may
\* be absent.
OrderTimes == { <<4, <<5, 0>> >>, <<4, <<>> >>, <<5, <<5, 0>> >> }

\* Events with lineups that vary, the score at 0-0.
NextOrder ==
    \/ \E t \in OrderTimes,
          oc \in OnCourt \ {[home |-> HomeFiveShuffled, away |-> AwayFive]} :
          AddEvent(t[1], t[2], oc, Num(0), Num(0))
    \/ \E p \in Permutations(DOMAIN events) : MainShuffled(p)

SpecOrder == InitStint /\ [][NextOrder]_vars

\* ---------------------------------------------------------------------
\* The segmenter over a batch: the event file holds the events of several
\* games, and main walks the games table
\* ---------------------------------------------------------------------
GameIds == {"G1", "G2"}

\* events_g.get_group(game_id): the rows of the game, in file order.
get_group(file, game_id) == SelectSeq(file, LAMBDA r : r.game_id = game_id)

\* The stint rows one pass of the loop appends for the game.
game_stints(file, game_id) ==
    AsSeq([i \in DOMAIN main_stints(get_group(file, game_id)) |->
              [game_id |-> game_id]
                  @@ main_stints(get_group(file, game_id))[i]])

\* stint_rows after the loop over the games table, lines 79-181.
batch_stints(file, games) ==
    Flatten([k \in DOMAIN games |-> game_stints(file, games[k])])

\* The loop ends with the exception of the first game whose time axis
\* raises.
batch_raises(file, games) ==
    \E k \in DOMAIN games : time_axis_raises(get_group(file, games[k]))

\* An event of game g is written to the event file; each game's events
\* are chronological and numbered in the game.
AddGameEvent(g, clock, oc, hp, ap) ==
    /\ pc = "input"
    /\ Len(events) < MaxEvents
    /\ \E own \in {get_group(events, g)} :
          /\ NotBefore(game_time_elapsed_sec(4, clock),
                       {ElapsedOf(own[i]) : i \in DOMAIN own})
          /\ NotBefore(hp, {own[i].home_points : i \in DOMAIN own})
          /\ NotBefore(ap, {own[i].away_points : i \in DOMAIN own})
          /\ events' = Append(events,
                              [game_id |-> g, event_number |-> Len(own) + 1,
                               period_number |-> 4, clock |-> clock,
                               home_points |-> hp, away_points |-> ap,
                               home_players |-> oc.home,
                               away_players |-> oc.away])
    /\ UNCHANGED <<ev_ctx, df, p0_columns, core_out>>
    /\ UNCHANGED <<pc, name_in, name_out, p0, alias_map, res, pbp, out_rows,
                   issues, stint_rows>>

\* main over the batch, the games table in the order games.  The tables
\* are written after the loop, so an exception leaves no stint row.
MainBatch(games) ==
    /\ pc = "input"
    /\ IF batch_raises(events, games)
       THEN pc' = "raised" /\ UNCHANGED stint_rows
       ELSE pc' = "batched" /\ stint_rows' = batch_stints(events, games)
    /\ UNCHANGED <<ev_ctx, df, p0_columns, core_out>>
    /\ UNCHANGED <<name_in, name_out, p0, alias_map, res, pbp, out_rows,
                   issues, events>>

\* Events of two games in the fourth period, with or without a score.
NextBatch ==
    \/ \E g \in GameIds, c \in {<<5, 0>>, <<0, 0>>},
          oc \in OnCourt \ {[home |-> HomeFiveShuffled, away |-> AwayFive]},
          sc \in {[home |-> NaN, away |-> NaN],
                  [home |-> Num(0), away |-> Num(0)]} :
          AddGameEvent(g, c, oc, sc.home, sc.away)
    \/ \E games \in {<<"G1", "G2">>, <<"G2", "G1">>} : MainBatch(games)

SpecBatch == InitStint /\ [][NextBatch]_vars

\* ---------------------------------------------------------------------
\* parse_phase4_5_core_player_actions.py main: one event row
\* ---------------------------------------------------------------------
\* RE_SHOT = ^(.+?)\s+(makes|misses)\s+(two point|three point|free throw)
\* The value is the number of words of group 1, 0 when there is no match.
core_RE_SHOT(d) ==
    FirstOr0({i \in 1..(Len(d) - 3) :
                /\ Sp(d, i) /\ d[i + 1] \in Verbs
                /\ \/ d[i + 2] \in {"two", "three"} /\ d[i + 3] = "point"
                   \/ d[i + 2] = "free" /\ d[i + 3] = "throw"})

\* RE_TOV = ^(.+?)\s+turnover
core_RE_TOV(d) ==
    FirstOr0({i \in 1..(Len(d) - 1) :
                Sp(d, i) /\ d[i + 1] \in {"turnover", "turnovers"}})

\* kw\s+by\s+(.+?)(?:stop|$): <<a, b>>, group 1 is words a..b; <<0, 0>>
\* when there is no match.
by_clause_at(d, stop, ks) ==
    IF ks = {} THEN <<0, 0>>
    ELSE <<Min(ks) + 2,
           Min({m - 1 : m \in {n \in (Min(ks) + 3)..Len(d) : d[n] = stop}}
                 \cup {Len(d)})>>

by_clause(d, kw, stop) ==
    by_clause_at(d, stop,
                 {k \in 1..(Len(d) - 2) :
                     /\ d[k] = kw /\ Sp(d, k) /\ d[k + 1] = "by"
                     /\ Sp(d, k + 1)})

\* The lead pattern of the foul branch, ^(.+?)\s+.*foul
core_foul_lead(d) ==
    FirstOr0({i \in 1..(Len(d) - 1) :
                Sp(d, i) /\ \E k \in (i + 1)..Len(d) :
                               d[k] \in {"foul", "fouls"}})

\* is_clutch(row), lines 109-125: the clock is <<m, s>> or absent, the
\* period a whole number.
core_is_clutch(r) ==
    IF clock_to_sec(r.clock) = NaN THEN 0
    ELSE IF \/ r.period_number = 4 /\ clock_to_sec(r.clock)[1] <= 120
            \/ r.period_number >= 5
    THEN 1 ELSE 0

\* is_transition(row): the event table has no qualifiers here, so the
\* description decides.
is_transition(r) ==
    IF \/ \E k \in DOMAIN r.description : r.description[k] = "fastbreak"
       \/ \E k \in 1..(Len(r.description) - 1) :
             /\ r.description[k] = "fast" /\ r.description[k + 1] = "break"
             /\ Sp(r.description, k)
    THEN 1 ELSE 0

\* zone_from_action_area on the words of the action area (none when the
\* event has no location).
zone_from_action_area(area) ==
    IF \E k \in DOMAIN area : area[k] \in {"restricted", "rim"} THEN "rim"
    ELSE IF \E k \in DOMAIN area : area[k] = "paint" THEN "paint"
    ELSE IF \E k \in DOMAIN area : area[k] = "mid" THEN "mid"
    ELSE IF /\ \E k \in DOMAIN area : area[k] = "corner"
            /\ \E k \in DOMAIN area : area[k] = "3"
         THEN "corner3"
    ELSE IF \E k \in DOMAIN area : area[k] \in {"above", "break"} THEN "ab3"
    ELSE IF \E k \in DOMAIN area : area[k] \in {"3", "three"}
         THEN "three_unknown"
    ELSE "unknown"

\* f"zone_{zone}_att" and f"zone_{zone}_made"
zone_stat(zone, what) ==
    IF what = "att"
    THEN CASE zone = "rim" -> "zone_rim_att"
           [] zone = "paint" -> "zone_paint_att"
           [] zone = "mid" -> "zone_mid_att"
           [] zone = "corner3" -> "zone_corner3_att"
           [] zone = "ab3" -> "zone_ab3_att"
           [] zone = "three_unknown" -> "zone_three_unknown_att"
           [] OTHER -> "zone_unknown_att"
    ELSE CASE zone = "rim" -> "zone_rim_made"
           [] zone = "paint" -> "zone_paint_made"
           [] zone = "mid" -> "zone_mid_made"
           [] zone = "corner3" -> "zone_corner3_made"
           [] zone = "ab3" -> "zone_ab3_made"
           [] zone = "three_unknown" -> "zone_three_unknown_made"
           [] OTHER -> "zone_unknown_made"

\* team_att if team_att else team_poss, where team_att is the str() of the
\* cell: an empty cell reads as NaN, whose str() is the non-empty "nan".
core_preferred_team(r) ==
    IF r.attribution_team_id # NULL THEN r.attribution_team_id
    ELSE "nan"

\* add_stat: one row of the accumulator, for each stat of the list.
add_stat(i, player_id, team_id, stats) ==
    [rows |-> [k \in DOMAIN stats |->
                  [ev |-> i, player_id |-> player_id,
                   team_id |-> IF team_id = NULL THEN "" ELSE team_id,
                   stat |-> stats[k]]],
     issues |-> <<>>]

\* The issue resolve_name_to_playerId appends, if any.
core_issue(i, r, role, raw_name, problem) ==
    IF problem = NULL THEN Nothing
    ELSE OneIssue([ev |-> i, event_type |-> r.event_type, role |-> role,
                   raw_name |-> raw_name, problem |-> problem])

If(c, stats) == IF c THEN stats ELSE <<>>

\* lines 215-247: the stats of the shooter.
shooter_stats(made, shot_kind, zone, clutch, trans) ==
    IF shot_kind = "free"
    THEN <<"fta">> \o If(made, <<"ftm">>) \o If(clutch = 1, <<"clutch_fta">>)
    ELSE <<"fga">> \o If(made, <<"fgm">>)
         \o (IF shot_kind = "three"
             THEN <<"three_pa">> \o If(made, <<"three_pm">>)
             ELSE <<"two_pa">> \o If(made, <<"two_pm">>))
         \o <<zone_stat(zone, "att")>> \o If(made, <<zone_stat(zone, "made")>>)
         \o If(clutch = 1, <<"clutch_fga">>)
         \o If(trans = 1, <<"trans_fga">>)

\* lines 253-256: the assister's issue, if any, then the two stats when
\* an id came back.
core_assist_rows(i, r, shooter_id, assister_name, a) ==
    Cat(core_issue(i, r, "assister", assister_name, a.problem),
        IF a.pid = NULL THEN Nothing
        ELSE Cat(add_stat(i, a.pid, core_preferred_team(r), <<"ast">>),
                 add_stat(i, shooter_id, core_preferred_team(r),
                          <<"assisted_fgm">>)))

\* lines 249-258
core_assist_part(i, r, name_lut, shooter_id, made, shot_kind, am) ==
    IF shot_kind = "free" \/ ~made THEN Nothing
    ELSE IF am[1] = 0
    THEN add_stat(i, shooter_id, core_preferred_team(r), <<"unassisted_fgm">>)
    ELSE core_assist_rows(
             i, r, shooter_id, JoinWords(r.description, am[1] + 1, am[2] - 1),
             resolve_name_to_playerId(
                 JoinWords(r.description, am[1] + 1, am[2] - 1), name_lut,
                 core_preferred_team(r)))

\* lines 213-258: the shooter's issue, if any, then the stats when an id
\* came back.
core_shot_rows(i, r, name_lut, shooter_name, s, made, shot_kind) ==
    Cat(core_issue(i, r, "shooter", shooter_name, s.problem),
        IF s.pid = NULL THEN Nothing
        ELSE Cat(add_stat(i, s.pid, core_preferred_team(r),
                          shooter_stats(made, shot_kind,
                                        zone_from_action_area(<<>>),
                                        core_is_clutch(r), is_transition(r))),
                 core_assist_part(i, r, name_lut, s.pid, made, shot_kind,
                                  RE_ASSIST(r.description))))

\* lines 205-260
core_shot_branch(i, r, name_lut, m) ==
    core_shot_rows(i, r, name_lut, JoinWords(r.description, 1, m),
                   resolve_name_to_playerId(JoinWords(r.description, 1, m),
                                            name_lut, core_preferred_team(r)),
                   r.description[m + 1] = "makes", r.description[m + 2])

\* A name resolved for one stat: the issue, if any, then the stats.
core_named(i, r, role, name, s, team_id, stats) ==
    Cat(core_issue(i, r, role, name, s.problem),
        IF s.pid = NULL THEN Nothing
        ELSE add_stat(i, s.pid, team_id, stats))

\* lines 265-286: the event table has no turnover_type column here.
core_turnover_branch(i, r, name_lut, m2) ==
    IF m2 = 0
    THEN core_issue(i, r, "turnover_player", <<>>, "could_not_parse_turnover")
    ELSE core_named(i, r, "turnover_player", JoinWords(r.description, 1, m2),
                    resolve_name_to_playerId(
                        JoinWords(r.description, 1, m2), name_lut,
                        core_preferred_team(r)),
                    core_preferred_team(r),
                    <<"tov">> \o If(core_is_clutch(r) = 1, <<"clutch_tov">>))

\* lines 291-326: the name in the parentheses, else the name after "by";
\* resolved without a preferred team.
core_paren_or_by(i, r, name_lut, role, stat, paren, by) ==
    IF paren[1] = 0 /\ by[1] = 0 THEN Nothing
    ELSE \* the words of the name
         core_named(i, r, role,
                    IF paren[1] # 0
                    THEN JoinWords(r.description, paren[1] + 1, paren[2] - 1)
                    ELSE JoinWords(r.description, by[1], by[2]),
                    resolve_name_to_playerId(
                        IF paren[1] # 0
                        THEN JoinWords(r.description, paren[1] + 1,
                                       paren[2] - 1)
                        ELSE JoinWords(r.description, by[1], by[2]),
                        name_lut, NULL),
                    NULL, <<stat>>)

\* lines 350-358: one side of the foul, nothing without a name.
core_foul_side(i, r, name_lut, role, name, stat) ==
    IF name = <<>> THEN Nothing
    ELSE core_named(i, r, role, name,
                    resolve_name_to_playerId(name, name_lut, NULL),
                    NULL, <<stat>>)

\* lines 331-363
core_foul_rows(i, r, name_lut, fouler, drawn) ==
    IF fouler = <<>> /\ drawn = <<>>
    THEN core_issue(i, r, "foul", <<>>, "could_not_parse_foul")
    ELSE Cat(core_foul_side(i, r, name_lut, "fouler", fouler, "pf_committed"),
             core_foul_side(i, r, name_lut, "fouled_player", drawn,
                            "pf_drawn"))

core_foul_branch(i, r, name_lut, mf, md, lead) ==
    core_foul_rows(i, r, name_lut,
                   IF mf[1] # 0 THEN JoinWords(r.description, mf[1], mf[2])
                   ELSE JoinWords(r.description, 1, lead),
                   JoinWords(r.description, md[1], md[2]))

\* "steal" in et
IsStealType(et) == et \in {"steal"}

\* "block" in et
IsBlockType(et) == et \in {"block"}

\* The body of the loop over the event rows, lines 186-363.
core_event(i, r, name_lut) ==
    IF core_RE_SHOT(r.description) # 0
    THEN core_shot_branch(i, r, name_lut, core_RE_SHOT(r.description))
    ELSE IF IsTurnoverType(r.event_type)
    THEN core_turnover_branch(i, r, name_lut, core_RE_TOV(r.description))
    ELSE IF IsStealType(r.event_type)
    THEN core_paren_or_by(i, r, name_lut, "stealer", "stl",
                          ParenClause(r.description, "steals"),
                          by_clause(r.description, "steal", ")"))
    ELSE IF IsBlockType(r.event_type)
    THEN core_paren_or_by(i, r, name_lut, "blocker", "blk",
                          ParenClause(r.description, "blocks"),
                          by_clause(r.description, "blocked", ")"))
    ELSE IF IsFoulType(r.event_type)
    THEN core_foul_branch(i, r, name_lut,
                          by_clause(r.description, "foul", "("),
                          by_clause(r.description, "drawn", "("),
                          core_foul_lead(r.description))
    ELSE Nothing

RECURSIVE core_events(_, _, _)
core_events(rows, i, name_lut) ==
    IF i > Len(rows) THEN Nothing
    ELSE Cat(core_event(i, rows[i], name_lut),
             core_events(rows, i + 1, name_lut))

\* df.groupby(["season_year", "player_id", "team_id", "stat"])["inc"].sum()
agg(rows) ==
    {[player_id |-> rows[k].player_id, team_id |-> rows[k].team_id,
      stat |-> rows[k].stat,
      inc |-> Cardinality({j \in DOMAIN rows :
                 /\ rows[j].player_id = rows[k].player_id
                 /\ rows[j].team_id = rows[k].team_id
                 /\ rows[j].stat = rows[k].stat})] : k \in DOMAIN rows}

\* main, lines 158-403, once the loop is over: no row is an error, raised
\* before any file is written; otherwise the table and the issues are
\* written.
core_finish(out) ==
    IF out.rows = <<>>
    THEN [rows |-> <<>>, issues |-> out.issues, agg |-> {}, wrote |-> {}]
    ELSE [rows |-> out.rows, issues |-> out.issues, agg |-> agg(out.rows),
          wrote |-> {"out", "issues_out"}]

\* main of parse_phase4_5_core_player_actions.py: build_player_lookup
\* raises when the roster index lacks a column; otherwise the loop runs.
RunCore ==
    /\ pc = "input"
    /\ IF need \subseteq p0_columns
       THEN \E out \in {core_finish(core_events(pbp, 1,
                                                 build_player_lookup(p0)))} :
               /\ core_out' = out
               /\ pc' = IF out.wrote = {} THEN "core_raised" ELSE "core_ran"
       ELSE pc' = "core_raised" /\ UNCHANGED core_out
    /\ UNCHANGED <<ev_ctx, df, p0_columns>>
    /\ UNCHANGED <<name_in, name_out, p0, alias_map, res, pbp, out_rows,
                   issues, events, stint_rows>>

\* The roster index is read without one of its columns.
DropColumn(c) ==
    /\ pc = "input"
    /\ pbp = <<>>
    /\ c \in p0_columns
    /\ p0_columns' = p0_columns \ {c}
    /\ UNCHANGED <<ev_ctx, df, core_out>>
    /\ UNCHANGED <<pc, name_in, name_out, p0, alias_map, res, pbp, out_rows,
                   issues, events, stint_rows>>

\* ---------------------------------------------------------------------
\* Both parsers over events of every category, with a roster that holds
\* two players named "B" on different teams
\* ---------------------------------------------------------------------
ParseRoster ==
    ActionsRoster
        \o << [playerId |-> "p3", playerName |-> <<"B">>, teamId |-> "T2"] >>

\* An event row with the period and the clock.
TimedEvent(et, d, att, period, clock) ==
    [event_type |-> et, description |-> d, attribution_team_id |-> att,
     possession_team_id |-> att, period_number |-> period, clock |-> clock]

\* Events whose names resolve, do not resolve or are ambiguous, and
\* events of a category whose description holds no name.
ParseEvents ==
    { TimedEvent("twopointmade",
                 <<"A", "W", "makes", "two", "point", "shot",
                   "(", "B", "assists", ")">>, "T1", 4, <<1, 45>>),
      TimedEvent("threepointmiss",
                 <<"E", "misses", "three", "point", "shot">>, "T1", 1,
                 <<5, 0>>),
      TimedEvent("twopointmade", <<"B", "makes", "two", "point", "shot">>,
                 NULL, 4, <<1, 45>>),
      TimedEvent("freethrowmiss", <<"lane", "violation">>, "T1", 4,
                 <<1, 45>>),
      TimedEvent("turnover", <<"turnover">>, "T1", 4, <<1, 45>>),
      TimedEvent("technicalfoul", <<"delay", "of", "game">>, "T1", 4,
                 <<1, 45>>),
      TimedEvent("personalfoul",
                 <<"A", "W", "personal", "foul",
                   "(", "E", "draws", "the", "foul", ")">>, "T1", 4,
                 <<1, 45>>),
      TimedEvent("turnover",
                 <<"A", "W", "turnover", "(", "bad", "pass", ")">>, "T1", 5,
                 <<>>),
      TimedEvent("steal", <<"steal", "by", "B">>, "T2", 4, <<1, 45>>),
      TimedEvent("block", <<"shot", "(", "E", "blocks", ")">>, "T2", 4,
                 <<1, 45>>) }

InitParse ==
    /\ pc = "input"
    /\ p0 = ParseRoster
    /\ name_in = <<>> /\ name_out = [a |-> <<>>, core |-> <<>>]
    /\ alias_map = <<>> /\ res = NoCall
    /\ pbp = <<>> /\ out_rows = <<>> /\ issues = <<>>
    /\ events = <<>> /\ stint_rows = <<>>
    /\ ev_ctx = <<>> /\ df = <<>>
    /\ p0_columns = need /\ core_out = NoRun

NextParse ==
    \/ \E c \in need : DropColumn(c)
    \/ \E e \in ParseEvents : AddPbpRow(e)
    \/ RunActions
    \/ RunCore

SpecParse == InitParse /\ [][NextParse]_vars

\* ---------------------------------------------------------------------
\* The actions table over foul events, with the roster that holds two
\* players named "B" on different teams
\* ---------------------------------------------------------------------
\* Foul events: a fouler with a homonym under each attribution team, a
\* fouler of two words, drawers in the first or the last parentheses, a
\* last clause that has the phrase with no name before it.
FoulEvents ==
    { Event("personalfoul", <<"B", "personal", "foul">>, "T1", "T1"),
      Event("personalfoul", <<"B", "personal", "foul">>, "T2", "T2"),
      Event("personalfoul", <<"B", "personal", "foul">>, NULL, NULL),
      Event("shootingfoul",
            <<"A", "W", "shooting", "foul",
              "(", "B", "draws", "the", "foul", ")">>, "T1", "T1"),
      Event("personalfoul",
            <<"A", "W", "personal", "foul",
              "(", "E", "draws", "the", "foul", ")",
              "(", "B", "draws", "the", "foul", ")">>, "T2", "T2"),
      Event("offensivefoul",
            <<"E", "offensive", "foul",
              "(", "B", "draws", "the", "foul", ")",
              "(", "loose", "ball", ")">>, "T1", "T1"),
      Event("personalfoul",
            <<"E", "personal", "foul",
              "(", "B", "draws", "the", "foul", ")",
              "(", "draws", "the", "foul", ")">>, "T1", "T1"),
      Event("technicalfoul", <<"E", "foul">>, "T1", "T1"),
      Event("technicalfoul", <<"delay", "of", "game">>, "T1", "T1") }

\* Turnover events: a team-level violation with the team as subject, a
\* description with no subject, an unknown player and a roster player.
TeamWords == {"TEAM"}

TurnoverEvents ==
    { Event("turnover",
            <<"TEAM", "turnover", "(", "5-second", "violation", ")">>,
            "T1", "T1"),
      Event("turnover", <<"shot", "clock", "violation">>, "T1", "T1"),
      Event("turnover", <<"E", "turnover">>, "T1", "T1"),
      Event("turnover", <<"A", "W", "turnover">>, "T1", "T1") }

NextFoul ==
    \/ \E e \in FoulEvents \cup TurnoverEvents : AddPbpRow(e)
    \/ RunActions

SpecFoul == InitParse /\ [][NextFoul]_vars

\* ---------------------------------------------------------------------
\* The segmenter over feeds that are not chronological: a score that is
\* corrected downwards, a clock that runs backwards, a lineup snapshot of
\* fewer than five players, a side with no snapshot
\* ---------------------------------------------------------------------
\* An event of the feed with no condition on the events before it.
AddAnyEvent(period, clock, oc, hp, ap) ==
    /\ pc = "input"
    /\ Len(events) < MaxEvents
    /\ events' = Append(events,
                        [event_number |-> Len(events) + 1,
                         period_number |-> period, clock |-> clock,
                         home_points |-> hp, away_points |-> ap,
                         home_players |-> oc.home, away_players |-> oc.away])
    /\ UNCHANGED <<ev_ctx, df, p0_columns, core_out>>
    /\ UNCHANGED <<pc, name_in, name_out, p0, alias_map, res, pbp, out_rows,
                   issues, stint_rows>>

\* Events of the first period at 5:00 with any score and a lineup change.
NextScores ==
    \/ \E oc \in {[home |-> HomeFive, away |-> AwayFive],
                  [home |-> HomeSub, away |-> AwayFive]},
          sc \in Scores :
          AddAnyEvent(1, <<5, 0>>, oc, sc.home, sc.away)
    \/ \E b \in BOOLEAN : Main(b)

SpecScores == InitStint /\ [][NextScores]_vars

\* The home lineup rows of an event: five players, four players, five
\* rows that hold one player twice, or no row.
HomeSnapshots ==
    { HomeFive, <<"p1", "p2", "p3", "p4">>,
      <<"p1", "p1", "p2", "p3", "p4">>, <<>> }

\* Clocks of the fourth period in any order, and an event with no clock.
AnyClocks == { <<>>, <<5, 0>>, <<0, 0>> }

NextLineups ==
    \/ \E c \in AnyClocks, h \in HomeSnapshots :
          AddAnyEvent(4, c, [home |-> h, away |-> AwayFive], Num(0), Num(0))
    \/ \E b \in BOOLEAN : Main(b)

SpecLineups == InitStint /\ [][NextLineups]_vars

\* ---------------------------------------------------------------------
\* The time axis of build_phase4_from_pbp_tables.py on its own: line 94
\* applied to event rows of any period and clock
\* ---------------------------------------------------------------------
MaxTimed == 2

TimedPeriods == 1..6

\* No clock, and clocks from the length of a quarter down to 0:00.
TimedClocks == { <<>>, <<10, 0>>, <<5, 0>>, <<2, 30>>, <<0, 0>> }

\* No table holds a row.
InitTimed ==
    /\ pc = "input"
    /\ p0 = <<>> /\ p0_columns = need
    /\ name_in = <<>> /\ name_out = [a |-> <<>>, core |-> <<>>]
    /\ alias_map = <<>> /\ res = NoCall
    /\ pbp = <<>> /\ out_rows = <<>> /\ issues = <<>>
    /\ events = <<>> /\ stint_rows = <<>>
    /\ ev_ctx = <<>> /\ df = <<>> /\ core_out = NoRun

\* Line 94: the row gets t_elapsed.  The clock of the feed counts down
\* from the length of the period.
ApplyElapsed(period, clock) ==
    /\ pc = "input"
    /\ Len(df) < MaxTimed
    /\ IF clock = <<>> THEN TRUE
       ELSE clock[1] * 60 + clock[2] <= period_len_sec(period)
    /\ df' = Append(df, [period_number |-> period, clock |-> clock,
                         t_elapsed |-> game_time_elapsed_sec(period, clock)])
    /\ UNCHANGED <<pc, name_in, name_out, p0, alias_map, res, pbp, out_rows,
                   issues, events, stint_rows, ev_ctx, p0_columns, core_out>>

NextTimed == \E p \in TimedPeriods, c \in TimedClocks : ApplyElapsed(p, c)

SpecTimed == InitTimed /\ [][NextTimed]_vars

\* ---------------------------------------------------------------------
\* Shot coordinates: normalize_xy_to_hoop of
\* build_pbp_player_actions_table.py and zone_from_xy of
\* build_phase4_5_player_spatial_profile.py
\* ---------------------------------------------------------------------
\* lines 98-124. A cell that float() turns into nan, or that it rejects,
\* gives a null pair. Coordinates are whole numbers of feed units.
normalize_xy_to_hoop(x, y) ==
    IF x = NaN \/ y = NaN THEN <<NaN, NaN>>
    ELSE <<Num(x[1] - 564),
           Num(IF y[1] > 300
               THEN (IF 600 - y[1] < 0 THEN y[1] - 600 ELSE 600 - y[1])
               ELSE (IF y[1] < 0 THEN 0 - y[1] ELSE y[1]))>>

\* abs(hx)
abs(v) == IF v < 0 THEN 0 - v ELSE v

\* The 3-point boundary with the boundary itself left out.
zone_three_above(hx, hy) ==
    IF hx * hx + hy * hy <= 60 * 60 THEN "rim"
    ELSE IF hx * hx + hy * hy <= 140 * 140 THEN "paint"
    ELSE IF ~ (hx * hx + hy * hy > 240 * 240) THEN "mid"
    ELSE IF abs(hx) >= 250 THEN "corner3"
    ELSE "ab3"

\* zone_from_xy, lines 11-31: dist = sqrt(hx*hx + hy*hy) is compared with
\* 60, 140 and 240; on whole numbers that is the comparison of the
\* squares.
zone_from_xy(hx, hy) ==
    IF hx * hx + hy * hy <= 60 * 60 THEN "rim"
    ELSE IF hx * hx + hy * hy <= 140 * 140 THEN "paint"
    ELSE IF ~ (hx * hx + hy * hy >= 240 * 240) THEN "mid"
    ELSE IF abs(hx) >= 250 THEN "corner3"
    ELSE "ab3"

\* Raw coordinates of the observed ranges: the ends, the centre line, the
\* fold line, points on the zone boundaries, and a coarse grid.
XCoords ==
    {1, 314, 315, 420, 504, 563, 564, 565, 600, 624, 648, 708, 813, 814,
     1128}
        \cup {x \in 1..1128 : x % 141 = 0}

YCoords ==
    {1, 48, 60, 112, 140, 192, 240, 299, 300, 301, 360, 408, 599, 600}

Cells(S) == {NaN} \cup {Num(v) : v \in S}

InitZone == InitTimed

\* build_pbp_player_actions_table.main, lines 262-267 and 287-292: the
\* shot row gets the normalized pair of the event's coordinates.
LocateShot(x, y) ==
    /\ pc = "input"
    /\ \E h \in {normalize_xy_to_hoop(x, y)} :
          ev_ctx' = <<[loc_x |-> x, loc_y |-> y, hx |-> h[1], hy |-> h[2],
                       zone |-> NULL]>>
    /\ pc' = "located"
    /\ UNCHANGED <<name_in, name_out, p0, alias_map, res, pbp, out_rows,
                   issues, events, stint_rows, df, p0_columns, core_out>>

\* build_phase4_5_player_spatial_profile.main, lines 47-53: shots with a
\* null coordinate are dropped, the others get a zone.
ZoneShot ==
    /\ pc = "located"
    /\ IF ev_ctx[1].hx = NaN \/ ev_ctx[1].hy = NaN
       THEN ev_ctx' = <<>>
       ELSE ev_ctx' = <<[ev_ctx[1] EXCEPT
                           !.zone = zone_from_xy(ev_ctx[1].hx[1],
                                                 ev_ctx[1].hy[1])]>>
    /\ pc' = "zoned"
    /\ UNCHANGED <<name_in, name_out, p0, alias_map, res, pbp, out_rows,
                   issues, events, stint_rows, df, p0_columns, core_out>>

NextZone ==
    \/ \E x \in Cells(XCoords), y \in Cells(YCoords) : LocateShot(x, y)
    \/ ZoneShot

SpecZone == InitZone /\ [][NextZone]_vars

\* ---------------------------------------------------------------------
\* build_phase4_5_player_context_splits.py: the clutch flag and the margin
\* bucket of the rows of the actions table
\* ---------------------------------------------------------------------
\* is_clutch, lines 10-19: int() of a NaN cell raises and gives False.
is_clutch_splits(period_number, clock_seconds) ==
    IF period_number = NaN THEN FALSE
    ELSE IF clock_seconds = NaN THEN FALSE
    ELSE \/ period_number[1] = 4 /\ clock_seconds[1] <= 120
         \/ period_number[1] >= 5

margin_bucket(m) ==
    IF m = NaN THEN "unknown"
    ELSE IF m[1] <= -10 THEN "trail_10plus"
    ELSE IF m[1] <= -4 THEN "trail_4_9"
    ELSE IF m[1] < 0 THEN "trail_1_3"
    ELSE IF m[1] = 0 THEN "tied"
    ELSE IF m[1] < 4 THEN "lead_1_3"
    ELSE IF m[1] < 10 THEN "lead_4_9"
    ELSE "lead_10plus"

\* np.where(~m_team.isna(), m_team, m_home), line 53.
margin_used(m_team, m_home) == IF m_team # NaN THEN m_team ELSE m_home

\* Lines 46-56 on one row of the frame.
split_row(r) ==
    [period_number |-> r.period_number, clock_seconds |-> r.clock_seconds,
     margin_for_team |-> r.margin_for_team, margin_home |-> r.margin_home,
     margin_used |-> margin_used(r.margin_for_team, r.margin_home),
     clutch |-> is_clutch_splits(r.period_number, r.clock_seconds),
     bucket |-> margin_bucket(margin_used(r.margin_for_team, r.margin_home))]

\* The rows of the actions table come in, then main derives the columns.
MaxActionRows == 1

Margins == {-10, -9, -4, -3, -1, 0, 1, 3, 4, 9, 10}

\* margin_home and margin_for_team as add_row writes them: no score, no
\* game context for the team, the home team, the away team.
MarginCells ==
    {[home |-> NaN, team |-> NaN]}
        \cup {[home |-> Num(m), team |-> NaN] : m \in Margins}
        \cup {[home |-> Num(m), team |-> Num(m)] : m \in Margins}
        \cup {[home |-> Num(m), team |-> Num(0 - m)] : m \in Margins}

SplitPeriods == {NaN, Num(3), Num(4), Num(5)}

SplitClocks == {NaN, Num(105), Num(125)}

ReadActionRow(period, cs, mc) ==
    /\ pc = "input"
    /\ Len(df) < MaxActionRows
    /\ df' = Append(df, [period_number |-> period, clock_seconds |-> cs,
                         margin_for_team |-> mc.team,
                         margin_home |-> mc.home])
    /\ UNCHANGED <<ev_ctx, p0_columns, core_out>>
    /\ UNCHANGED <<pc, name_in, name_out, p0, alias_map, res, pbp, out_rows,
                   issues, events, stint_rows>>

ContextSplits ==
    /\ pc = "input"
    /\ df' = AsSeq([i \in DOMAIN df |-> split_row(df[i])])
    /\ pc' = "split"
    /\ UNCHANGED <<ev_ctx, p0_columns, core_out>>
    /\ UNCHANGED <<name_in, name_out, p0, alias_map, res, pbp, out_rows,
                   issues, events, stint_rows>>

NextSplits ==
    \/ \E p \in SplitPeriods, cs \in SplitClocks, mc \in MarginCells :
          ReadActionRow(p, cs, mc)
    \/ ContextSplits

SpecSplits == InitStint /\ [][NextSplits]_vars

\* ---------------------------------------------------------------------
\* build_lineup_synergy.py: the lineup key of the rows of the stint table
\* ---------------------------------------------------------------------
\* "|".join(ids): the ids with the separator between them.  A player id
\* is one token; no id holds the separator.
join(sep, ids) ==
    Flatten([i \in DOMAIN ids |->
                IF i = 1 THEN <<ids[i]>> ELSE <<sep, ids[i]>>])

\* A key that keeps the order of the slots.
unsorted_key(row) ==
    join("|", SelectSeq(<<row.p1, row.p2, row.p3, row.p4, row.p5>>,
                        LAMBDA x : x # ""))

\* make_lineup_key: a slot that is NaN or blank is "" here.
make_lineup_key(row) ==
    join("|", Flatten([k \in DOMAIN IdOrder |->
                  SelectSeq(<<row.p1, row.p2, row.p3, row.p4, row.p5>>,
                            LAMBDA x : x # "" /\ x = IdOrder[k])]))

MaxStintRows == 2

Rotate(ids) == Tail(ids) \o <<Head(ids)>>

\* The slots p1..p5 of a row of the stint table: four groups of five
\* players, each in three orders, and a row with no player.
Slots ==
    UNION {{b, Reverse(b), Rotate(b)} :
              b \in {HomeFive, HomeSub, AwayFive, AwaySub}}
        \cup {<<"", "", "", "", "">>}

ReadStintRow(ids) ==
    /\ pc = "input"
    /\ Len(df) < MaxStintRows
    /\ df' = Append(df, [p1 |-> ids[1], p2 |-> ids[2], p3 |-> ids[3],
                         p4 |-> ids[4], p5 |-> ids[5]])
    /\ UNCHANGED <<ev_ctx, p0_columns, core_out>>
    /\ UNCHANGED <<pc, name_in, name_out, p0, alias_map, res, pbp, out_rows,
                   issues, events, stint_rows>>

keyed_row(r) ==
    [p1 |-> r.p1, p2 |-> r.p2, p3 |-> r.p3, p4 |-> r.p4, p5 |-> r.p5,
     lineup_key |-> make_lineup_key(r)]

\* main, lines 75-76: the key of every row, rows with an empty key dropped.
LineupKeys ==
    /\ pc = "input"
    /\ df' = SelectSeq(AsSeq([i \in DOMAIN df |-> keyed_row(df[i])]),
                       LAMBDA r : Len(r.lineup_key) > 0)
    /\ pc' = "keyed"
    /\ UNCHANGED <<ev_ctx, p0_columns, core_out>>
    /\ UNCHANGED <<name_in, name_out, p0, alias_map, res, pbp, out_rows,
                   issues, events, stint_rows>>

NextKeys == (\E ids \in Slots : ReadStintRow(ids)) \/ LineupKeys

SpecKeys == InitStint /\ [][NextKeys]_vars

\* ---------------------------------------------------------------------
\* Properties of the resolvers
\* ---------------------------------------------------------------------
\* What the call recorded in res looked up: the key after the alias table
\* and its candidates in build_pbp_player_actions_table.py, the candidates
\* in parse_phase4_5_core_player_actions.py.
ResLut == build_name_lookup(load_phase0(p0))

ResCands ==
    dict_get(ResLut, alias_get(alias_map, norm_name(res.raw_name)), <<>>)

CoreCands ==
    dict_get(build_player_lookup(p0), norm_name_core(res.raw_name), <<>>)

RosterIds == {p0[k].playerId : k \in DOMAIN p0}

TwoTeams(cands) == Len(cands) = 2 /\ cands[1].teamId # cands[2].teamId

\* The hinted team's candidate for a matching hint, no id otherwise.
HintedOrNone(cands, hint, pid) ==
    IF \E k \in DOMAIN cands : cands[k].teamId = hint
    THEN \E k \in DOMAIN cands :
            cands[k].teamId = hint /\ pid = cands[k].playerId
    ELSE pid = NULL

\* C4: when the name has two roster candidates on different teams, each
\* resolver returns the candidate of the hinted team when the hint is one
\* of the two teams, and no player id when there is no hint or the hint is
\* neither team; it never returns a candidate by its place in the list.
AmbiguousNeverPicked ==
    pc = "resolved" =>
        /\ TwoTeams(ResCands) =>
               HintedOrNone(ResCands, res.preferred_team, res.pid)
        /\ TwoTeams(CoreCands) =>
               HintedOrNone(CoreCands, res.preferred_team, res.core_pid)

\* C5: a player id the resolver returns is the playerId of a row of the
\* roster index, whatever the raw name, the roster, the alias table and
\* the hint; so is the player_id of every action row written.
ResolvedInRoster ==
    /\ pc = "resolved" =>
           /\ res.pid \in RosterIds \cup {NULL}
           /\ res.core_pid \in RosterIds \cup {NULL}
    /\ pc = "ran" =>
           \A k \in DOMAIN out_rows : out_rows[k].player_id \in RosterIds

\* Action rows were written for players found through the alias table.
ResolvedInRosterWitness ==
    /\ pc = "ran"
    /\ Len(out_rows) >= 2
    /\ alias_map # <<>>
    /\ Len(p0) = MaxRoster

\* C6 as stated: the normalised raw name has exactly one roster candidate,
\* so the resolver returns that candidate's id for every hint and every
\* alias table.
SingleCandidateAnyAlias ==
    pc = "resolved" =>
        \A c \in {dict_get(ResLut, norm_name(res.raw_name), <<>>)} :
            Len(c) = 1 => res.pid = c[1].playerId

\* C6: when the key looked up, the normalised raw name after the alias
\* table, has exactly one roster candidate, the resolver returns that
\* candidate's id for every hint: none, the candidate's team, another
\* team.
SingleCandidateResolves ==
    pc = "resolved" /\ Len(ResCands) = 1 => res.pid = ResCands[1].playerId

\* An aliased name with one candidate was resolved under the hint of a
\* team the candidate is not on.
SingleCandidateWitness ==
    /\ pc = "resolved"
    /\ Len(ResCands) = 1
    /\ res.preferred_team \notin {NULL, ResCands[1].teamId}
    /\ norm_name(res.raw_name) \in DOMAIN alias_map
    /\ res.pid = ResCands[1].playerId

\* ---------------------------------------------------------------------
\* Properties of the actions table
\* ---------------------------------------------------------------------
\* The action rows written for event i.
RowsOf(i) == SelectSeq(out_rows, LAMBDA row : row.ev = i)

ShotsOf(i) ==
    SelectSeq(out_rows,
              LAMBDA row : row.ev = i /\ row.action \in {"two_pa", "three_pa"})

AssistsOf(i) ==
    SelectSeq(out_rows, LAMBDA row : row.ev = i /\ row.action = "assist")

\* The id the words a..b of event i's description resolve to.
Named(i, a, b) ==
    resolve_player_id(JoinWords(pbp[i].description, a, b), ResLut, alias_map,
                      pbp[i].attribution_team_id)

\* The shot row of a shooter pid whose verb and kind are the words after
\* word m.
IsShotRow(row, d, m, pid) ==
    /\ row.player_id = pid
    /\ row.action = (IF d[m + 2] = "three" THEN "three_pa" ELSE "two_pa")
    /\ row.points_value = (IF d[m + 2] = "three" THEN "3" ELSE "2")
    /\ row.result = (IF d[m + 1] = "makes" THEN "made" ELSE "missed")

\* C8: an event whose description matches NAME makes|misses two
\* point|three point and whose shooter resolves gets exactly one shot row,
\* for the shooter, three_pa with 3 points for a three point shot and
\* two_pa with 2 points otherwise, made for makes and missed for misses.
OneShotAction ==
    pc = "ran" =>
        \A i \in DOMAIN pbp :
            \A m \in {RE_SHOT(pbp[i].description)} :
                m # 0 /\ Named(i, 1, m) # NULL =>
                    /\ Len(ShotsOf(i)) = 1
                    /\ IsShotRow(ShotsOf(i)[1], pbp[i].description, m,
                                 Named(i, 1, m))

\* A missed three and a made two were both written.
OneShotActionWitness ==
    /\ pc = "ran"
    /\ Len(pbp) = 2
    /\ \E i, j \in DOMAIN pbp :
          /\ Len(ShotsOf(i)) = 1 /\ ShotsOf(i)[1].action = "three_pa"
          /\ ShotsOf(i)[1].result = "missed"
          /\ Len(ShotsOf(j)) = 1 /\ ShotsOf(j)[1].action = "two_pa"
          /\ ShotsOf(j)[1].result = "made"

\* The passer of event i resolves: there is a (NAME assists) clause and
\* its name is in the roster.
PasserResolves(i, am) ==
    am[1] # 0 /\ Named(i, am[1] + 1, am[2] - 1) # NULL

\* C9: a field-goal event gets an assist row exactly when the verb is
\* makes and the description has a (NAME assists) clause whose name
\* resolves.
AssistIffResolvable ==
    pc = "ran" =>
        \A i \in DOMAIN pbp :
            \A m \in {RE_SHOT(pbp[i].description)} :
                m # 0 =>
                    (Len(AssistsOf(i)) >= 1 <=>
                        /\ pbp[i].description[m + 1] = "makes"
                        /\ PasserResolves(i, RE_ASSIST(pbp[i].description)))

\* The one row of a free throw by pid with the verb after word m.
IsFreeThrowRow(row, d, m, pid) ==
    /\ row.player_id = pid
    /\ row.action = "fta"
    /\ row.points_value = "1"
    /\ row.result = (IF d[m + 1] = "makes" THEN "made" ELSE "missed")

\* C10 as stated: every event whose description is NAME makes|misses ...
\* free throw ... and whose shooter resolves gets exactly one row, an fta
\* of 1 point, made for makes and missed for misses.
FreeThrowAlwaysFta ==
    pc = "ran" =>
        \A i \in DOMAIN pbp :
            \A m \in {RE_FT(pbp[i].description)} :
                m # 0 /\ Named(i, 1, m) # NULL =>
                    /\ Len(RowsOf(i)) = 1
                    /\ IsFreeThrowRow(RowsOf(i)[1], pbp[i].description, m,
                                      Named(i, 1, m))

\* C10: an event whose description is NAME makes|misses ... free throw
\* ..., with the verb not directly followed by two point or three point,
\* and whose shooter resolves gets exactly one row: an fta of 1 point,
\* made for makes and missed for misses; no shot row and no assist row.
FreeThrowIsFta ==
    pc = "ran" =>
        \A i \in DOMAIN pbp :
            \A m \in {RE_FT(pbp[i].description)} :
                /\ m # 0
                /\ RE_SHOT(pbp[i].description) = 0
                /\ Named(i, 1, m) # NULL
                => /\ Len(RowsOf(i)) = 1
                   /\ IsFreeThrowRow(RowsOf(i)[1], pbp[i].description, m,
                                     Named(i, 1, m))

\* A made free throw with an assists clause and a missed technical free
\* throw in an event of another type were both written as fta rows.
FreeThrowIsFtaWitness ==
    /\ pc = "ran"
    /\ Len(out_rows) = 2
    /\ \E i, j \in DOMAIN pbp :
          /\ RE_ASSIST(pbp[i].description)[1] # 0
          /\ Len(RowsOf(i)) = 1 /\ RowsOf(i)[1].result = "made"
          /\ RowsOf(i)[1].action = "fta"
          /\ pbp[j].event_type = "technicalfoul"
          /\ Len(RowsOf(j)) = 1 /\ RowsOf(j)[1].result = "missed"
          /\ RowsOf(j)[1].action = "fta"

\* ---------------------------------------------------------------------
\* Properties of the stints
\* ---------------------------------------------------------------------
\* The events are held in feed order, which is their (period, event
\* number) order.  The players of event i's own snapshot for a side, and
\* the side's player set at event i with the snapshots forward-filled
\* (empty before the first snapshot).
PlayersAt(side, i) ==
    IF side = "home" THEN events[i].home_players ELSE events[i].away_players

LastSnapshot(side, have) ==
    IF have = {} THEN {} ELSE Range(PlayersAt(side, Max(have)))

SetAt(side, i) ==
    LastSnapshot(side, {j \in 1..i : PlayersAt(side, j) # <<>>})

\* The events that have a player set, and those of them that have a game
\* clock.
InLineup(side) == {i \in DOMAIN events : SetAt(side, i) # {}}

Clocked(side) == {i \in InLineup(side) : ElapsedOf(events[i]) # NaN}

\* The events of I whose set differs from the set of the event of I
\* before them, and the first event of I.
StartsIn(side, I) ==
    {i \in I : \A j \in I : j < i =>
                   \E m \in I : /\ j <= m /\ m < i
                                /\ SetAt(side, m) # SetAt(side, i)}

\* The last event of I before the next start after i.
RunEnd(I, S, i) == Max({m \in I : \A x \in S : x > i => m < x})

SideRows(side) == SelectSeq(stint_rows, LAMBDA r : r.side = side)

\* One stint per start of I, numbered 1, 2, ... in event order, each with
\* the player set of its start.
SegmentedAt(side, I, S, rows) ==
    /\ Len(rows) = Cardinality(S)
    /\ \A i \in S :
          \A n \in {Cardinality({x \in S : x <= i})} :
              /\ rows[n].stint_id = n
              /\ Range(rows[n].lineup) = SetAt(side, i)

\* Each stint runs from the time of its start to the time of the last
\* event before the next start.
BoundedAt(side, I, S, rows) ==
    \A i \in S :
        \A n \in {Cardinality({x \in S : x <= i})} :
            /\ Num(rows[n].start_t) = ElapsedOf(events[i])
            /\ Num(rows[n].end_t) = ElapsedOf(events[RunEnd(I, S, i)])

DurationsCoverStream ==
    pc = "segmented" =>
        \A side \in {"home", "away"} :
            Clocked(side) # {} =>
                Num(SumSeq([n \in DOMAIN SideRows(side) |->
                               SideRows(side)[n].duration_s]))
                    = Num(ElapsedOf(events[Max(Clocked(side))])[1]
                          - ElapsedOf(events[Min(Clocked(side))])[1])

\* The side's score at event i.
ScoreAt(side, i) ==
    IF side = "home" THEN events[i].home_points[1]
    ELSE events[i].away_points[1]

\* C3: when every event carries both scores, the points_for of a side's
\* stints add up to the side's score at the last event of its stream minus
\* its score at the first.
PointsCoverStream ==
    /\ pc = "segmented"
    /\ (\A i \in DOMAIN events :
           events[i].home_points # NaN /\ events[i].away_points # NaN)
    => \A side \in {"home", "away"} :
           Clocked(side) # {} =>
               SumSeq([n \in DOMAIN SideRows(side) |->
                          SideRows(side)[n].points_for[1]])
                   = ScoreAt(side, Max(Clocked(side)))
                     - ScoreAt(side, Min(Clocked(side)))

\* ---------------------------------------------------------------------
\* Properties of the per-event context
\* ---------------------------------------------------------------------
\* The rule of the specification on a period and a clock in seconds (NaN
\* when the clock is absent).
ClutchByRule(period, cs) ==
    IF period >= 5 THEN TRUE
    ELSE IF cs = NaN THEN FALSE
    ELSE period = 4 /\ cs[1] <= 120

\* C11: every clutch flag computed in the pipeline is (period = 4 and
\* clockSeconds <= 120) or period >= 5, whatever the score: true in every
\* overtime period, false in the fourth period with more than 120 seconds
\* on the clock.
ClutchIsLastTwoMinutesOrOvertime ==
    \A i \in DOMAIN ev_ctx :
        (ev_ctx[i].is_clutch = 1)
            <=> ClutchByRule(ev_ctx[i].period_number,
                             clock_to_sec(ev_ctx[i].clock))

\* The bucket of the specification's table.
BucketOf(m) ==
    IF m = NaN THEN "unknown"
    ELSE IF m[1] <= -10 THEN "trail_10plus"
    ELSE IF m[1] \in -9..-4 THEN "trail_4_9"
    ELSE IF m[1] \in -3..-1 THEN "trail_1_3"
    ELSE IF m[1] = 0 THEN "tied"
    ELSE IF m[1] \in 1..3 THEN "lead_1_3"
    ELSE IF m[1] \in 4..9 THEN "lead_4_9"
    ELSE "lead_10plus"

\* C12: the margin bucket of an action is a function of its margin for
\* the team only: the bucket of the table for an integer margin, unknown
\* when the margin for the team is null.
BucketByTeamMargin ==
    pc = "split" =>
        \A i \in DOMAIN df : df[i].bucket = BucketOf(df[i].margin_for_team)

\* ---------------------------------------------------------------------
\* Properties of the lineup key
\* ---------------------------------------------------------------------
SlotsOf(r) == <<r.p1, r.p2, r.p3, r.p4, r.p5>>

\* C13: the lineup key is order-independent: two rows that hold the same
\* five players in any order of the slots get the same key and the same
\* normalized lineup, and rows with different player sets get different
\* keys and different normalized lineups.
LineupKeyIsTheSet ==
    pc = "keyed" =>
        \A i \in DOMAIN df, j \in DOMAIN df :
            /\ (Range(SlotsOf(df[i])) = Range(SlotsOf(df[j])))
                   <=> (df[i].lineup_key = df[j].lineup_key)
            /\ (Range(SlotsOf(df[i])) = Range(SlotsOf(df[j])))
                   <=> (normalize_lineup(SlotsOf(df[i]))
                          = normalize_lineup(SlotsOf(df[j])))

LineupKeyIsTheSetWitness ==
    /\ pc = "keyed"
    /\ Len(df) = 2
    /\ SlotsOf(df[1]) # SlotsOf(df[2])
    /\ Range(SlotsOf(df[1])) = Range(SlotsOf(df[2]))
    /\ Cardinality(Range(SlotsOf(df[1]))) = 5
    /\ df[1].lineup_key = df[2].lineup_key

\* ---------------------------------------------------------------------
\* Properties of the issue tables and of the fatal conditions
\* ---------------------------------------------------------------------
\* The event is in a recognized category by its type or by a keyword of
\* its description.
InCategory(r) ==
    \/ IsFreeThrowType(r.event_type) \/ HasFreeThrow(r.description)
    \/ IsTurnoverType(r.event_type) \/ HasTurnover(r.description)
    \/ IsFoulType(r.event_type)

\* No pattern of the category the event falls in extracts a name.
NothingExtracted(r) ==
    /\ RE_SHOT(r.description) = 0
    /\ IF IsFreeThrowType(r.event_type) \/ HasFreeThrow(r.description)
       THEN /\ RE_FT(r.description) = 0
            /\ ~(RE_FT_LOOSE(r.description) # 0 /\ HasFreeThrow(r.description))
       ELSE IF RE_REB(r.description) # 0 THEN FALSE
       ELSE IF IsTurnoverType(r.event_type) \/ HasTurnover(r.description)
       THEN RE_TOV_A(r.description) = 0 /\ RE_TOV_B(r.description)[1] = 0
       ELSE /\ RE_FOUL_LEAD(r.description) = 0
            /\ find_drawer(r.description)[1] = 0

\* C14: every event of a recognized category (free throw, turnover, foul)
\* from which no pattern extracts anything leaves an UNPARSED issue row
\* that holds the event's whole description.
UnparsedIsLogged ==
    pc = "ran" =>
        \A i \in DOMAIN pbp :
            (InCategory(pbp[i]) /\ NothingExtracted(pbp[i]))
                => \E k \in DOMAIN issues :
                      /\ issues[k].ev = i
                      /\ issues[k].bucket = "UNPARSED"
                      /\ issues[k].description = pbp[i].description

\* The actions a candidate of an issue bucket would have been credited.
ActionsOf(bucket) ==
    CASE bucket = "shot" -> {"two_pa", "three_pa"}
      [] bucket = "assist_name" -> {"assist"}
      [] bucket = "ft" -> {"fta"}
      [] bucket = "rebound" -> {"orb", "drb"}
      [] bucket = "turnover" -> {"turnover"}
      [] OTHER -> {bucket}

\* C15: a candidate name that does not resolve leaves exactly one issue
\* row and no action row of its own, and every run that gets past its
\* column checks writes the issue table at its end, empty or not.
UnresolvedLoggedAndWritten ==
    /\ pc = "ran" =>
          \A k \in DOMAIN issues :
              /\ \A j \in DOMAIN issues :
                    (/\ issues[j].ev = issues[k].ev
                     /\ issues[j].bucket = issues[k].bucket) => j = k
              /\ \A n \in DOMAIN out_rows :
                    out_rows[n].ev = issues[k].ev
                        => out_rows[n].action \notin ActionsOf(issues[k].bucket)
    /\ (pc \in {"core_ran", "core_raised"} /\ need \subseteq p0_columns)
          => "issues_out" \in core_out.wrote

\* C16: no clock and no score of an event makes the derivations of the
\* time axis raise: the run over the event file ends with the context of
\* every event.
DerivationsNeverRaise ==
    pc # "input" => (pc = "segmented" /\ Len(ev_ctx) = Len(events))

\* C17: a roster index that lacks one of playerId, playerName, teamId
\* ends the run with an error before any action row or issue row, and a
\* run ends with an error for no other reason.
OnlyMissingColumnIsFatal ==
    /\ (pc # "input" /\ ~(need \subseteq p0_columns))
          => /\ pc \in {"raised", "core_raised"}
             /\ out_rows = <<>> /\ issues = <<>> /\ core_out = NoRun
    /\ pc \in {"raised", "core_raised"} => ~(need \subseteq p0_columns)

\* ---------------------------------------------------------------------
\* Properties of the order of the event rows
\* ---------------------------------------------------------------------
\* The stints of a file whose rows are taken as they come.
UnsortedStints(file) ==
    both_sides(ffill_lineups(AsSeq([i \in DOMAIN file |-> ev_row(file[i])])))

\* C19: the events of a game are put in (period number, event number,
\* sequence) order before the forward-fill and the boundary detection:
\* whatever the order of the rows in the event file, the stints of the
\* game are those of its events taken in feed order.
StintsIgnoreRowOrder ==
    pc = "segmented" =>
        /\ Len(df) = Len(events) /\ Range(df) = Range(events)
        /\ stint_rows = UnsortedStints(events)

StintsIgnoreRowOrderWitness ==
    /\ pc = "segmented"
    /\ Len(events) = MaxEvents
    /\ df # events
    /\ Len(SideRows("home")) >= 2
    /\ UnsortedStints(df) # stint_rows

\* ---------------------------------------------------------------------
\* Properties of the resolver on homonyms
\* ---------------------------------------------------------------------
\* The candidates whose team is the hint.
OnHint(cands, hint) == {k \in DOMAIN cands : cands[k].teamId = hint}

\* C20: when the name has several roster candidates, the resolver returns
\* a candidate only if the hint is the team of exactly one of them, and
\* that one; with a hint that matches two or more candidates, or none, it
\* returns no player id.
HomonymsNeverPicked ==
    (pc = "resolved" /\ Len(ResCands) >= 2) =>
        IF Cardinality(OnHint(ResCands, res.preferred_team)) = 1
        THEN \E k \in OnHint(ResCands, res.preferred_team) :
                res.pid = ResCands[k].playerId
        ELSE res.pid = NULL

\* ---------------------------------------------------------------------
\* Properties of the batch
\* ---------------------------------------------------------------------
\* C18: games are processed independently: the stint rows of a game in
\* the output of a batch are the rows the game gives on its own, whatever
\* other games the batch holds and in whatever order the games are taken.
GamesAreIndependent ==
    pc \in {"batched", "raised"} =>
        \A g \in GameIds :
            ~time_axis_raises(get_group(events, g))
                => get_group(stint_rows, g) = game_stints(events, g)

\* ---------------------------------------------------------------------
\* Properties of the foul branch
\* ---------------------------------------------------------------------
\* The rows and the issues of the foul actions of event i.
FoulRowsOf(i) ==
    SelectSeq(out_rows,
              LAMBDA row : /\ row.ev = i
                           /\ row.action \in {"foul_committed", "foul_drawn"})

FoulIssuesOf(i) ==
    SelectSeq(issues,
              LAMBDA x : /\ x.ev = i
                         /\ x.bucket \in {"foul_committed", "foul_drawn"})

\* The roster rows with the normalised name of the player pid.
Homonyms(pid) ==
    {k \in DOMAIN p0 :
        \E m \in DOMAIN p0 :
            /\ p0[m].playerId = pid
            /\ norm_name(p0[k].playerName) = norm_name(p0[m].playerName)}

\* C21: the names of a foul are resolved without a team hint: no foul
\* action is credited to a player whose name has several roster
\* candidates, and two foul events with the same description get the
\* same foul actions and issues whatever their team columns are.
FoulNamesUnhinted ==
    pc = "ran" =>
        /\ \A n \in DOMAIN out_rows :
              out_rows[n].action \in {"foul_committed", "foul_drawn"}
                  => Cardinality(Homonyms(out_rows[n].player_id)) = 1
        /\ \A i \in DOMAIN pbp, j \in DOMAIN pbp :
              (/\ IsFoulType(pbp[i].event_type)
               /\ pbp[i].event_type = pbp[j].event_type
               /\ pbp[i].description = pbp[j].description)
                  => /\ Len(FoulRowsOf(i)) = Len(FoulRowsOf(j))
                     /\ \A k \in DOMAIN FoulRowsOf(i) :
                           FoulRowsOf(i)[k].player_id
                               = FoulRowsOf(j)[k].player_id
                     /\ Len(FoulIssuesOf(i)) = Len(FoulIssuesOf(j))

\* ---------------------------------------------------------------------
\* Properties of the turnover branch
\* ---------------------------------------------------------------------
\* The subject the two turnover patterns extract from d, <<>> if none.
TurnoverSubject(d) ==
    IF RE_TOV_A(d) # 0 THEN JoinWords(d, 1, RE_TOV_A(d))
    ELSE IF RE_TOV_B(d)[1] # 0 THEN JoinWords(d, RE_TOV_B(d)[1], RE_TOV_B(d)[2])
    ELSE <<>>

\* A turnover event that names no player: no subject, or a team.
IsTeamTurnover(r) ==
    /\ IsTurnoverType(r.event_type) \/ HasTurnover(r.description)
    /\ \/ TurnoverSubject(r.description) = <<>>
       \/ /\ Len(TurnoverSubject(r.description)) = 1
          /\ TurnoverSubject(r.description)[1] \in TeamWords

\* C22: a turnover that names no player (a team-level violation) gives
\* no action row and no issue row.
TeamTurnoverIsSilent ==
    pc = "ran" =>
        \A i \in DOMAIN pbp :
            IsTeamTurnover(pbp[i])
                => /\ \A n \in DOMAIN out_rows : out_rows[n].ev # i
                   /\ \A n \in DOMAIN issues : issues[n].ev # i

\* ---------------------------------------------------------------------
\* Properties of the foul drawer
\* ---------------------------------------------------------------------
\* "draws the foul" starts at word k of d.
PhraseAt(d, k) ==
    /\ k + 2 <= Len(d)
    /\ d[k] \in {"draw", "draws"} /\ d[k + 1] = "the" /\ d[k + 2] = "foul"

\* The parenthesised clauses of d that contain the phrase, and those in
\* which a name comes before it.
PhraseClauses(d) ==
    {c \in DOMAIN RE_PARENS(d) :
        \E k \in (RE_PARENS(d)[c][1] + 1)..(RE_PARENS(d)[c][2] - 3) :
            PhraseAt(d, k)}

NamedClauses(d) ==
    {c \in DOMAIN RE_PARENS(d) :
        \E k \in (RE_PARENS(d)[c][1] + 2)..(RE_PARENS(d)[c][2] - 3) :
            PhraseAt(d, k)}

\* The leading name of the clause <<i, j>>: its words before the first
\* phrase that has a word before it; <<>> when there is none.
LeadingName(d, ij) ==
    IF \E k \in (ij[1] + 2)..(ij[2] - 3) : PhraseAt(d, k)
    THEN JoinWords(d, ij[1] + 1,
                   Min({k \in (ij[1] + 2)..(ij[2] - 3) : PhraseAt(d, k)}) - 1)
    ELSE <<>>

\* The leading name of the last clause of the set cs, <<>> for no clause.
DrawerOf(d, cs) ==
    IF cs = {} THEN <<>> ELSE LeadingName(d, RE_PARENS(d)[Max(cs)])

\* The event reaches the foul branch of the loop.
InFoulBranch(r) ==
    /\ IsFoulType(r.event_type)
    /\ RE_SHOT(r.description) = 0 /\ RE_REB(r.description) = 0
    /\ ~ (IsFreeThrowType(r.event_type) \/ HasFreeThrow(r.description))
    /\ ~ (IsTurnoverType(r.event_type) \/ HasTurnover(r.description))

DrawnRowsOf(i) ==
    SelectSeq(out_rows, LAMBDA row : row.ev = i /\ row.action = "foul_drawn")

DrawnIssuesOf(i) ==
    SelectSeq(issues, LAMBDA x : x.ev = i /\ x.bucket = "foul_drawn")

\* Event i gave the foul_drawn action of the drawer name, and nothing
\* for no name: one row of the player the name resolves to, or one issue
\* with the name; the foul_committed action is a row of its own.
DrawnIs(i, name, pid) ==
    /\ IF name = <<>>
       THEN DrawnRowsOf(i) = <<>> /\ DrawnIssuesOf(i) = <<>>
       ELSE IF pid # NULL
       THEN /\ Len(DrawnRowsOf(i)) = 1 /\ DrawnIssuesOf(i) = <<>>
            /\ DrawnRowsOf(i)[1].player_id = pid
            /\ DrawnRowsOf(i)[1].result = "drawn"
       ELSE /\ DrawnRowsOf(i) = <<>> /\ Len(DrawnIssuesOf(i)) = 1
            /\ DrawnIssuesOf(i)[1].raw_name = name
    /\ Len(FoulRowsOf(i)) - Len(DrawnRowsOf(i)) <= 1
    /\ \A n \in DOMAIN out_rows :
          out_rows[n].ev = i
              => out_rows[n].action \in {"foul_committed", "foul_drawn"}

KeywordAt(d, k) ==
    \/ /\ k + 1 <= Len(d) /\ d[k + 1] = "foul"
       /\ d[k] \in {"shooting", "personal", "offensive", "technical",
                    "flagrant"}
    \/ /\ k + 2 <= Len(d) /\ d[k + 2] = "foul"
       /\ <<d[k], d[k + 1]>> \in {<<"loose", "ball">>, <<"clear", "path">>}

\* The whole text before the first such keyword, <<>> without one.
NameBeforeKeyword(d) ==
    IF \E k \in 2..Len(d) : KeywordAt(d, k)
    THEN JoinWords(d, 1, Min({k \in 2..Len(d) : KeywordAt(d, k)}) - 1)
    ELSE <<>>

CommittedRowsOf(i) ==
    SelectSeq(out_rows,
              LAMBDA row : row.ev = i /\ row.action = "foul_committed")

CommittedIssuesOf(i) ==
    SelectSeq(issues, LAMBDA x : x.ev = i /\ x.bucket = "foul_committed")

\* Event i gave the foul_committed action of the fouler name, and
\* nothing for no name.
CommittedIs(i, name, pid) ==
    IF name = <<>>
    THEN CommittedRowsOf(i) = <<>> /\ CommittedIssuesOf(i) = <<>>
    ELSE IF pid # NULL
    THEN /\ Len(CommittedRowsOf(i)) = 1 /\ CommittedIssuesOf(i) = <<>>
         /\ CommittedRowsOf(i)[1].player_id = pid
    ELSE /\ CommittedRowsOf(i) = <<>> /\ Len(CommittedIssuesOf(i)) = 1
         /\ CommittedIssuesOf(i)[1].raw_name = name

\* C24: the fouler of "NAME <foul-type keyword> foul ..." is the whole
\* text before the keyword, all tokens of the name, and a description
\* with no such keyword directly before "foul" has no fouler.
FoulerIsWholeName ==
    pc = "ran" =>
        \A i \in DOMAIN pbp :
            InFoulBranch(pbp[i])
                => CommittedIs(i, NameBeforeKeyword(pbp[i].description),
                               resolve_player_id(
                                   NameBeforeKeyword(pbp[i].description),
                                   build_name_lookup(load_phase0(p0)),
                                   alias_map, pbp[i].attribution_team_id))

\* ---------------------------------------------------------------------
\* Properties of the shot coordinates
\* ---------------------------------------------------------------------
\* C25: for raw coordinates in the observed ranges the normalized pair
\* has hx >= 0 and hy >= 0, and the mirrored vertical positions y and
\* 600 - y give the same hy.
HoopCoordsNonNegative ==
    (pc = "located" /\ ev_ctx[1].loc_x # NaN /\ ev_ctx[1].loc_y # NaN)
        => /\ ev_ctx[1].hx # NaN /\ ev_ctx[1].hy # NaN
           /\ ev_ctx[1].hx[1] >= 0
           /\ ev_ctx[1].hy[1] >= 0
           /\ normalize_xy_to_hoop(ev_ctx[1].loc_x,
                                   Num(600 - ev_ctx[1].loc_y[1]))[2]
                  = ev_ctx[1].hy

\* The two halves of C25 that hold in the code: hy >= 0 and the mirror.
HoopDepthFolded ==
    (pc = "located" /\ ev_ctx[1].loc_x # NaN /\ ev_ctx[1].loc_y # NaN)
        => /\ ev_ctx[1].hy[1] >= 0
           /\ normalize_xy_to_hoop(ev_ctx[1].loc_x,
                                   Num(600 - ev_ctx[1].loc_y[1]))[2]
                  = ev_ctx[1].hy

\* The square of the distance of the shot from the hoop.
Dist2(c) == c.hx[1] * c.hx[1] + c.hy[1] * c.hy[1]

\* The zone of the rule: rim up to 60, paint up to 140, mid below 240,
\* then corner3 from |hx| = 250 on and ab3 otherwise.
ZoneByRule(c) ==
    IF Dist2(c) <= 3600 THEN "rim"
    ELSE IF Dist2(c) <= 19600 THEN "paint"
    ELSE IF Dist2(c) < 57600 THEN "mid"
    ELSE IF c.hx[1] >= 250 \/ c.hx[1] <= -250 THEN "corner3"
    ELSE "ab3"

\* C26: every normalized point gets exactly one zone, the one of the
\* distance rule.
ZoneIsPartition ==
    (pc = "zoned" /\ ev_ctx # <<>>)
        => /\ ev_ctx[1].zone \in {"rim", "paint", "mid", "corner3", "ab3"}
           /\ ev_ctx[1].zone = ZoneByRule(ev_ctx[1])

\* A shot exactly on the 3-point distance, left of the centre line.
ZoneIsPartitionWitness ==
    /\ pc = "zoned" /\ ev_ctx # <<>>
    /\ Dist2(ev_ctx[1]) = 57600
    /\ ev_ctx[1].hx[1] < 0
    /\ ev_ctx[1].zone = "ab3"

\* ---------------------------------------------------------------------
\* Properties of the elapsed game time
\* ---------------------------------------------------------------------
\* The length of period p and the length of the periods 1..n together:
\* quarters of 600 seconds, overtimes of 300.
LengthOf(p) == IF p <= 4 THEN 600 ELSE 300

FullLengths(n) == IF n <= 4 THEN 600 * n ELSE 2400 + 300 * (n - 4)

\* The seconds left on the clock of a timed row.
Remaining(r) == r.clock[1] * 60 + r.clock[2]

\* Row a is not after row b by period, and by decreasing clock within
\* the period.
InGameOrder(a, b) ==
    \/ a.period_number < b.period_number
    \/ /\ a.period_number = b.period_number /\ Remaining(a) >= Remaining(b)

StintEvents(st) ==
    {i \in DOMAIN events :
        /\ normalize_lineup(IF st.side = "home" THEN events[i].home_players
                            ELSE events[i].away_players) = st.lineup
        /\ Cardinality({j \in 1..i : change(
               dropna(ffill_lineups(sort_values(
                   AsSeq([k \in DOMAIN events |-> ev_row(events[k])]))),
                      st.side), st.side, j)}) = st.stint_id}

\* The four scores of the ends of the stint, own and opponent.
OwnAt(st, i) ==
    IF st.side = "home" THEN events[i].home_points ELSE events[i].away_points

OppAt(st, i) ==
    IF st.side = "home" THEN events[i].away_points ELSE events[i].home_points

\* Both scores are there at both ends and do not decrease.
ScoresUsable(st, a, b) ==
    /\ OwnAt(st, a) # NaN /\ OppAt(st, a) # NaN
    /\ OwnAt(st, b) # NaN /\ OppAt(st, b) # NaN
    /\ OwnAt(st, a)[1] <= OwnAt(st, b)[1]
    /\ OppAt(st, a)[1] <= OppAt(st, b)[1]

PointsAre(st, a, b) ==
    IF ScoresUsable(st, a, b)
    THEN /\ st.points_for = Num(OwnAt(st, b)[1] - OwnAt(st, a)[1])
         /\ st.points_against = Num(OppAt(st, b)[1] - OppAt(st, a)[1])
    ELSE st.points_for = NaN /\ st.points_against = NaN

\* C28: points_for and points_against of a stint are the score deltas
\* between its first and last event when the scores are there at both
\* ends and do not decrease; otherwise both are null, never negative.
PointsNullUnlessMonotone ==
    pc = "segmented" =>
        \A n \in DOMAIN stint_rows :
            /\ PointsAre(stint_rows[n], Min(StintEvents(stint_rows[n])),
                         Max(StintEvents(stint_rows[n])))
            /\ stint_rows[n].points_for = NaN \/ stint_rows[n].points_for[1] >= 0
            /\ stint_rows[n].points_against = NaN
                  \/ stint_rows[n].points_against[1] >= 0

\* ---------------------------------------------------------------------
\* Properties of the stints of feeds that are not chronological
\* ---------------------------------------------------------------------
HomeStints == SelectSeq(stint_rows, LAMBDA st : st.side = "home")

\* The events that reach the segmenter of the home side with a lineup of
\* their own: a clock and at least one home lineup row.
HomeSnapshotEvents ==
    {i \in DOMAIN events :
        events[i].home_players # <<>> /\ events[i].clock # <<>>}

\* C29: a stint whose lineup has fewer than five distinct players is
\* still emitted, and its row shows it (one of the slots p1..p5 is
\* empty), so that it differs from a row of five players; a side with no
\* lineup snapshot in the game gets no stint row.
IncompleteStintsAreMarked ==
    pc = "segmented" =>
        /\ (\A i \in DOMAIN events : events[i].home_players = <<>>)
              => HomeStints = <<>>
        /\ \A i \in HomeSnapshotEvents :
              \E n \in DOMAIN HomeStints :
                  HomeStints[n].lineup
                      = normalize_lineup(events[i].home_players)
        /\ \A n \in DOMAIN HomeStints :
              Cardinality(Range(HomeStints[n].lineup)) < 5
                  => Len(HomeStints[n].lineup) < 5

\* C30: the stints of one side do not overlap and follow each other in
\* stint-id order: 0 <= duration_s = end_t - start_t, the start of a
\* stint is not before the end of the stint with the previous id, and
\* two consecutive stints have different lineups, whatever the order of
\* the clocks in the event stream.
StintsDoNotOverlap ==
    pc = "segmented" =>
        /\ \A n \in DOMAIN HomeStints :
              /\ HomeStints[n].stint_id = n
              /\ HomeStints[n].duration_s >= 0
              /\ HomeStints[n].duration_s
                     = HomeStints[n].end_t - HomeStints[n].start_t
        /\ \A n \in 2..Len(HomeStints) :
              /\ HomeStints[n].start_t >= HomeStints[n - 1].end_t
              /\ HomeStints[n].lineup # HomeStints[n - 1].lineup

====
